---- MODULE Spec2Model ----
(***************************************************************************)
(* A model of the time-series analysis tool: the dataset store and the     *)
(* multi-source alignment of load_files (anylisis_data.py and              *)
(* show_data_large_data.py), the time filter and resampling of             *)
(* show_data_large_data.py, and the batch analyses of anylisis_data.py.    *)
(*                                                                         *)
(* Conventions.                                                            *)
(*  - A text (a path, a column name) is a sequence of tokens; joining two  *)
(*    texts is \o. No token is a part of another, so two texts are equal   *)
(*    exactly when their token sequences are.                              *)
(*  - An instant is an integer number of seconds since 1970-01-01 00:00.   *)
(*    All instants of the model lie before 2038, so the upper clip of      *)
(*    _normalize_time_index (2100-01-01) never applies; the lower clip     *)
(*    (1970-01-01) does.                                                   *)
(*  - A cell of a table is <<>> (missing: NaN / NaT / unparseable) or a    *)
(*    rational <<n, d>> in lowest terms with d > 0.                        *)
(*  - A DataFrame is [index, columns, values]: values[i] is row i, one     *)
(*    cell per column.                                                     *)
(***************************************************************************)
EXTENDS Integers, Sequences, FiniteSets, TLC

VARIABLES
    variant,      \* which script runs: "anylisis_data", "show_data" or
                  \* "show_data_large_data"
    disk,         \* the files of the directory tree the file dialog browses
    file_list,    \* self.file_list: the paths added so far, in order
    merged_data,  \* self.merged_data
    status_bar,   \* the messages shown by the last handler, in order
    result_text,  \* self.result_text: the report lines
    figure,       \* self.figure: what is drawn
    sampled,      \* what _apply_time_filter_and_sampling returned to the last
                  \* handler (EmptyFrame when the handler did not call it)
    request,      \* the last handler and what the front end supplied to it
    call          \* the helper applied last on its own, with what it was given
                  \* and what it returned (the specifications of the helpers)

vars == <<variant, disk, file_list, merged_data, status_bar, result_text, figure,
          sampled, request, call>>

-----------------------------------------------------------------------------
(* Bounds of the model. *)

\* Paths returned by one file dialog.
MaxBatch == 2

\* Paths in the file list (load_files is not offered beyond it).
MaxFiles == 2

\* Samples of a series handed to _detect_steps on its own.
MaxSeriesLen == 42

\* Differences over which a step of such a series climbs.
MaxTransition == 3

\* Samples of a series that moves between two levels from sample to
\* sample in every possible way.
MaxWiggleLen == 11

\* Samples of a series whose steady values are taken around a window.
MaxSteadyLen == 31

\* Samples of a series whose values fuzzify_val labels on its own.
MaxFuzzyLen == 3

\* Rows of the small files whose rules are mined, and rows of the long
\* files whose two columns carry the same evenly spread values.
MaxMiningRows == 3
UniformRows == 300

-----------------------------------------------------------------------------
(* Arithmetic on cells. *)

Abs(n) == IF n < 0 THEN -n ELSE n

RECURSIVE Gcd(_, _)
Gcd(a, b) == IF b = 0 THEN a ELSE Gcd(b, a % b)

\* The rational n/d (d # 0) in lowest terms with a positive denominator.
Rat(n, d) ==
    LET g == Gcd(Abs(n), Abs(d))
        s == IF d < 0 THEN -1 ELSE 1
    IN <<s * (n \div g), s * (d \div g)>>

Num(n) == <<n, 1>>
NaN == <<>>
IsNaN(c) == c = <<>>

RAdd(a, b) == Rat(a[1] * b[2] + b[1] * a[2], a[2] * b[2])
RSub(a, b) == Rat(a[1] * b[2] - b[1] * a[2], a[2] * b[2])
RMul(a, b) == Rat(a[1] * b[1], a[2] * b[2])
RDiv(a, b) == Rat(a[1] * b[2], a[2] * b[1])
RAbs(a) == <<Abs(a[1]), a[2]>>
RLt(a, b) == a[1] * b[2] < b[1] * a[2]
RLe(a, b) == a[1] * b[2] <= b[1] * a[2]
RMax(a, b) == IF RLt(a, b) THEN b ELSE a
RMin(a, b) == IF RLt(b, a) THEN b ELSE a

-----------------------------------------------------------------------------
(* Sequences. *)

Range(s) == {s[i] : i \in 1..Len(s)}

\* A sequence written [i \in 1..n |-> e], as a tuple. TLC keeps such an
\* expression unevaluated and computes e anew at every application; a tuple
\* holds its elements. For the same reason a value used more than once is
\* handed on as the argument of an operator (computed once) rather than
\* named in a LET (computed at every use).
Tuple(f) == f \o <<>>

\* A sequence of rows as a tuple of tuples.
Table(rows) == Tuple([i \in 1..Len(rows) |-> Tuple(rows[i])])

\* The integers of S in increasing order.
SortAsc(S) ==
    IF S = {} THEN <<>>
    ELSE LET lo == CHOOSE x \in S : \A y \in S : x <= y
             hi == CHOOSE x \in S : \A y \in S : y <= x
         IN SelectSeq([i \in 1..(hi - lo + 1) |-> lo + i - 1], LAMBDA t : t \in S)

RECURSIVE Flatten(_)
\* The concatenation of a sequence of sequences (halving, to keep the
\* nesting shallow).
Flatten(ss) ==
    IF Len(ss) = 0 THEN <<>>
    ELSE IF Len(ss) = 1 THEN ss[1]
    ELSE LET h == Len(ss) \div 2
         IN Flatten(SubSeq(ss, 1, h)) \o Flatten(SubSeq(ss, h + 1, Len(ss)))

\* The positions of s, in order, whose element satisfies Keep.
Where(s, Keep(_)) == SelectSeq([i \in 1..Len(s) |-> i], LAMBDA i : Keep(s[i]))

\* s restricted to the positions ps (a sequence of positions).
Pick(s, ps) == Tuple([k \in 1..Len(ps) |-> s[ps[k]]])

\* str.split(sep)[-1]: what follows the last sep.
AfterLast(s, sep) ==
    LET hits == {i \in 1..Len(s) : s[i] = sep}
        from == IF hits = {} THEN 1
                ELSE 1 + CHOOSE i \in hits : \A j \in hits : j <= i
    IN SubSeq(s, from, Len(s))

\* str.split(sep)[0]: what precedes the first sep.
BeforeFirst(s, sep) ==
    LET hits == {i \in 1..Len(s) : s[i] = sep}
        to == IF hits = {} THEN Len(s)
              ELSE (CHOOSE i \in hits : \A j \in hits : i <= j) - 1
    IN SubSeq(s, 1, to)

\* str.endswith(suffix)
EndsWith(s, suffix) ==
    /\ Len(s) >= Len(suffix)
    /\ SubSeq(s, Len(s) - Len(suffix) + 1, Len(s)) = suffix

-----------------------------------------------------------------------------
(* DataFrames. *)

\* pd.DataFrame()
EmptyFrame == [index |-> <<>>, columns |-> <<>>, values |-> <<>>]

\* DataFrame.empty: some axis has length 0.
IsEmpty(df) == Len(df.index) = 0 \/ Len(df.columns) = 0

\* The column named c of df, as a sequence of cells (the first such column).
ColPos(df, c) == CHOOSE j \in 1..Len(df.columns) : df.columns[j] = c
Column(df, c) == Tuple([i \in 1..Len(df.index) |-> df.values[i][ColPos(df, c)]])

\* df[cols]: the columns cols, in that order.
SelectColumns(df, cols) ==
    [index |-> df.index,
     columns |-> cols,
     values |-> Table([i \in 1..Len(df.index) |->
                    [k \in 1..Len(cols) |-> df.values[i][ColPos(df, cols[k])]]])]

\* df.iloc[ps]: the rows at positions ps.
SelectRows(df, ps) ==
    [index |-> Pick(df.index, ps),
     columns |-> df.columns,
     values |-> Pick(df.values, ps)]

\* df.drop(columns=[c]): every column labelled c goes.
DropColumn(df, c) ==
    LET keep == Where(df.columns, LAMBDA x : x # c)
    IN [index |-> df.index,
        columns |-> Pick(df.columns, keep),
        values |-> Tuple([i \in 1..Len(df.index) |-> Pick(df.values[i], keep)])]

-----------------------------------------------------------------------------
(* Texts. *)

Underscore == <<"_">>
DupSuffix == <<"_", "dup">>

\* str(col).startswith('Unnamed:')
StartsUnnamed(col) == Len(col) > 0 /\ col[1] = "Unnamed:"

\* str(col).strip() == ''
IsBlank(col) == \A i \in 1..Len(col) : col[i] = " "

\* The columns that load_files leaves without a prefix and that
\* update_variable_list hides.
IsPlaceholder(col) == StartsUnnamed(col) \/ IsBlank(col)

\* str(col).lower().startswith(('time', 'date', '时间'))
IsTimeLike(col) == Len(col) > 0 /\ col[1] \in {"time", "date"}

-----------------------------------------------------------------------------
(* The files the front end can hand to load_files. A file is its path, its *)
(* header (the first name is the time column) and its rows; the first cell *)
(* of a row is <<t>> for an instant the parser reads, <<>> for text that   *)
(* is no date.                                                             *)

Csv(dir, base) == <<"/", dir, "/">> \o base \o <<".", "csv">>

\* Two data points of one variable.
FileA ==
    [path |-> Csv("d1", <<"p">>),
     header |-> << <<"time">>, <<"x">> >>,
     rows |-> << << <<2>>, Num(10) >>, << <<7>>, Num(20) >> >>]

\* Same base name as FileA in another directory; rows out of time order,
\* one instant shared with FileA.
FileB ==
    [path |-> Csv("d2", <<"p", ".", "v2">>),
     header |-> << <<"time">>, <<"x">>, <<"y">> >>,
     rows |-> << << <<7>>, Num(99), Num(1) >>, << <<4>>, Num(98), NaN >> >>]

\* A time column and nothing else.
FileQ ==
    [path |-> Csv("d1", <<"q">>),
     header |-> << <<"time">> >>,
     rows |-> << << <<3>> >> >>]

\* A trailing comma (an unlabeled column), a blank header, and two instants
\* before 1970.
FileR ==
    [path |-> Csv("d1", <<"r">>),
     header |-> << <<"time">>, <<"w">>, <<"Unnamed:", " 2">>, <<" ">> >>,
     rows |-> << << <<-3>>, Num(5), NaN, Num(1) >>,
                 << <<-1>>, Num(6), NaN, Num(1) >>,
                 << <<5>>, Num(8), NaN, Num(1) >> >>]

\* A time column that is no date in any row.
FileBad ==
    [path |-> Csv("d1", <<"b">>),
     header |-> << <<"time">>, <<"x">> >>,
     rows |-> << << <<>>, Num(1) >>, << <<>>, Num(2) >> >>]

\* A header and no row.
FileE ==
    [path |-> Csv("d1", <<"e">>),
     header |-> << <<"time">>, <<"x">> >>,
     rows |-> << >>]

\* Forty samples one second apart: u holds 0, climbs by 2 over three
\* samples and holds 6; f is flat; g is u five samples earlier.
StepValue(i) == IF i <= 20 THEN 0 ELSE IF i = 21 THEN 2 ELSE IF i = 22 THEN 4 ELSE 6
FileS ==
    [path |-> Csv("d1", <<"s">>),
     header |-> << <<"time">>, <<"u">>, <<"f">>, <<"g">> >>,
     rows |-> [i \in 1..40 |-> << <<100 + i>>, Num(StepValue(i)), Num(3),
                                  Num(StepValue(i + 5)) >>]]

Files == {FileA, FileB, FileQ, FileR, FileBad, FileE, FileS}

\* The directory trees of the model: the short files, and the long series
\* beside a short file.
Disks == {{FileA, FileB, FileQ, FileR, FileBad, FileE}, {FileS, FileA}}

\* pd.read_csv(file) / pd.read_excel(file)
ReadFile(path) == CHOOSE f \in disk : f.path = path

-----------------------------------------------------------------------------
(* load_files. *)

\* The messages of the status bar.
Msg(kind, about) == [msg |-> kind, about |-> about]

\* _normalize_time_index: clip every instant into [1970-01-01, 2100-01-01].
Lower == 0
ClipInstant(t) == IF t < Lower THEN Lower ELSE t
NormalizeTimeIndex(idx) == Tuple([i \in 1..Len(idx) |-> ClipInstant(idx[i])])

\* df.index = self._normalize_time_index(df.index)
Normalized(df) == [df EXCEPT !.index = NormalizeTimeIndex(df.index)]

\* file.split('/')[-1].split('.')[0] + "_"   (the large-data script also
\* splits at a backslash)
FilePrefix(v, path) ==
    LET name == IF v = "show_data_large_data"
                THEN AfterLast(AfterLast(path, "/"), "\\")
                ELSE AfterLast(path, "/")
    IN BeforeFirst(name, ".") \o Underscore

\* new_columns / df.rename(columns=new_columns): a column that is the time
\* column or a placeholder is left out of the mapping and keeps its name.
RenamedColumn(prefix, time_col, col) ==
    IF col = time_col THEN col
    ELSE IF IsPlaceholder(col) THEN col
    ELSE prefix \o col

\* df.set_index(time_col) of the rows ps of a file, then the renaming.
IndexedFrame(v, f, ps) ==
    LET time_col == f.header[1]
        cols == Tail(f.header)
        prefix == FilePrefix(v, f.path)
    IN [index |-> Tuple([k \in 1..Len(ps) |-> f.rows[ps[k]][1][1]]),
        columns |-> Tuple([j \in 1..Len(cols) |->
                              RenamedColumn(prefix, time_col, cols[j])]),
        values |-> Tuple([k \in 1..Len(ps) |-> Tail(f.rows[ps[k]])])]

\* The rows of the merge for one key k, each as <<key, cells>>; L and R are
\* the positions of k in the two indexes, nanL and nanR the cells of a side
\* that lacks the key.
RowsFor(left, right, k, L, R, nanL, nanR) ==
    IF L = <<>>
    THEN Tuple([r \in 1..Len(R) |-> <<k, nanL \o right.values[R[r]]>>])
    ELSE IF R = <<>>
    THEN Tuple([l \in 1..Len(L) |-> <<k, left.values[L[l]] \o nanR>>])
    ELSE Flatten(Table([l \in 1..Len(L) |->
             [r \in 1..Len(R) |->
                 <<k, left.values[L[l]] \o right.values[R[r]]>>]]))

\* The rows of the merge, key after key.
MergedRows(left, right, keys, nanL, nanR) ==
    Flatten(Tuple([n \in 1..Len(keys) |->
        RowsFor(left, right, keys[n],
                Where(left.index, LAMBDA t : t = keys[n]),
                Where(right.index, LAMBDA t : t = keys[n]),
                nanL, nanR)]))

\* The merged frame of these rows.
MergedFrame(left, right, rows) ==
    [index |-> Tuple([i \in 1..Len(rows) |-> rows[i][1]]),
     columns |-> left.columns \o
                 Tuple([j \in 1..Len(right.columns) |->
                     IF right.columns[j] \in Range(left.columns)
                     THEN right.columns[j] \o DupSuffix
                     ELSE right.columns[j]]),
     values |-> Tuple([i \in 1..Len(rows) |-> rows[i][2]])]

\* pd.merge(left, right, left_index=True, right_index=True, how='outer',
\*          suffixes=('', '_dup')): the keys are the sorted union of both
\* indexes; a key held by both sides gives every pairing of its rows; a
\* column of right whose name left holds gets the suffix.
MergeOuter(left, right) ==
    MergedFrame(left, right,
        MergedRows(left, right,
                   SortAsc(Range(left.index) \cup Range(right.index)),
                   Tuple([j \in 1..Len(left.columns) |-> NaN]),
                   Tuple([j \in 1..Len(right.columns) |-> NaN])))

RECURSIVE DropDupColumns(_, _)
\* The loop over the merged columns: a column ending in _dup goes when the
\* name without the suffix is a column too. (No header of Files ends in
\* _dup, so no label occurs twice.)
DropDupColumns(df, cols) ==
    IF cols = <<>> THEN df
    ELSE LET col == Head(cols)
             original_col == SubSeq(col, 1, Len(col) - Len(DupSuffix))
         IN IF EndsWith(col, DupSuffix) /\ original_col \in Range(df.columns)
            THEN DropDupColumns(DropColumn(df, col), Tail(cols))
            ELSE DropDupColumns(df, Tail(cols))

\* dup_cols and the loop, on the merged frame.
DropDup(merged) == DropDupColumns(merged, merged.columns)

\* A merge in which the source loaded later takes the left side, and so
\* keeps its column where the names collide.
MergeInto_LaterWins(md, df) ==
    IF IsEmpty(md) THEN df ELSE DropDup(MergeOuter(df, md))

\* The merge step of load_files.
MergeInto(md, df) ==
    IF IsEmpty(md) THEN df ELSE DropDup(MergeOuter(md, df))

\* The body of the loop of load_files in anylisis_data.py (and
\* show_data.py) for a path not yet listed: the new merged_data and the
\* message shown.
LoadOneStrict(v, md, path) ==
    LET f == ReadFile(path)
        all == Tuple([k \in 1..Len(f.rows) |-> k])
    IN IF Len(f.rows) = 0
       THEN [md |-> md, msg |-> Msg("file_empty", path)]
       ELSE IF \E k \in 1..Len(f.rows) : f.rows[k][1] = <<>>
       THEN [md |-> md, msg |-> Msg("time_parse_error", f.header[1])]
       ELSE [md |-> MergeInto(md, IndexedFrame(v, f, all)),
             msg |-> Msg("loaded", path)]

\* The same in show_data_large_data.py: to_datetime(errors='coerce') turns
\* an unreadable time into NaT, dropna(subset=[time_col]) drops its row,
\* and the index is normalised before the merge.
LoadOneCoerce(v, md, path) ==
    LET f == ReadFile(path)
    IN IF Len(f.rows) = 0
       THEN [md |-> md, msg |-> Msg("file_empty", path)]
       ELSE [md |-> MergeInto(md, Normalized(
                        IndexedFrame(v, f, Where(f.rows, LAMBDA row : row[1] # <<>>)))),
             msg |-> Msg("loaded", path)]

LoadOne(v, md, path) ==
    IF v = "show_data_large_data" THEN LoadOneCoerce(v, md, path)
    ELSE LoadOneStrict(v, md, path)

\* self.file_list.append(file), then what the body of the loop did (one).
Listed(st, file, one) ==
    [file_list |-> Append(st.file_list, file),
     merged_data |-> one.md,
     status_bar |-> Append(st.status_bar, one.msg)]

RECURSIVE LoadLoop_Again(_, _, _)
\* A loop that reads the file of a listed path again.
LoadLoop_Again(v, st, files) ==
    IF files = <<>> THEN st
    ELSE IF Head(files) \in Range(st.file_list)
    THEN LoadLoop_Again(v, [st EXCEPT !.merged_data =
                                LoadOne(v, st.merged_data, Head(files)).md],
                        Tail(files))
    ELSE LoadLoop_Again(v, Listed(st, Head(files),
                                  LoadOne(v, st.merged_data, Head(files))),
                        Tail(files))

RECURSIVE LoadLoop(_, _, _)
\* for file in files: a listed path is skipped; any other is listed, then
\* loaded. st is [file_list, merged_data, status_bar].
LoadLoop(v, st, files) ==
    IF files = <<>> THEN st
    ELSE IF Head(files) \in Range(st.file_list)
    THEN LoadLoop(v, st, Tail(files))
    ELSE LoadLoop(v, Listed(st, Head(files), LoadOne(v, st.merged_data, Head(files))),
                  Tail(files))

\* What the loop leaves, and the closing normalisation of the large-data
\* script.
FinalNormalize(v, st) ==
    IF v = "show_data_large_data" /\ ~IsEmpty(st.merged_data)
    THEN [st EXCEPT !.merged_data.index = NormalizeTimeIndex(@)]
    ELSE st

LoadResult(v, fl, md, files) ==
    FinalNormalize(v, LoadLoop(v, [file_list |-> fl, merged_data |-> md,
                                   status_bar |-> <<>>], files))

\* The selections of a file dialog: one path, or several without repeats.
RECURSIVE SeqsNoRepeat(_, _)
SeqsNoRepeat(S, n) ==
    IF n = 0 THEN {<<>>}
    ELSE LET shorter == SeqsNoRepeat(S, n - 1)
         IN shorter \cup
            {Append(s, x) : s \in {t \in shorter : Len(t) = n - 1}, x \in S}
Batches(files) == {b \in SeqsNoRepeat({f.path : f \in files}, MaxBatch) :
                       b # <<>> /\ Cardinality(Range(b)) = Len(b)}

\* load_files with the paths the dialog returned. The model offers it while
\* the file list stays within MaxFiles and the result area and the figure
\* are blank (a session loads its files, analyses them, and clears).
Loaded(r) ==
    /\ file_list' = r.file_list
    /\ merged_data' = r.merged_data
    /\ status_bar' = r.status_bar

load_files(files) ==
    /\ Cardinality(Range(file_list) \cup Range(files)) <= MaxFiles
    /\ result_text = <<>> /\ figure = <<>> /\ sampled = EmptyFrame
    /\ Loaded(LoadResult(variant, file_list, merged_data, files))
    /\ request' = [op |-> "load_files", files |-> files]
    /\ UNCHANGED <<call, variant, disk, result_text, figure, sampled>>

\* A clear_files that empties the list and keeps the data.
clear_files_KeepData ==
    /\ file_list' = <<>>
    /\ merged_data' = merged_data
    /\ figure' = <<>>
    /\ result_text' = IF variant = "anylisis_data" THEN <<>> ELSE result_text
    /\ request' = [op |-> "clear_files"]
    /\ status_bar' = <<>>
    /\ sampled' = EmptyFrame
    /\ UNCHANGED <<call, variant, disk>>

\* clear_files (the large-data script has no result area to clear).
clear_files ==
    /\ file_list' = <<>>
    /\ merged_data' = EmptyFrame
    /\ figure' = <<>>
    /\ result_text' = IF variant = "anylisis_data" THEN <<>> ELSE result_text
    /\ request' = [op |-> "clear_files"]
    /\ status_bar' = <<>>
    /\ sampled' = EmptyFrame
    /\ UNCHANGED <<call, variant, disk>>

-----------------------------------------------------------------------------
(* What the front end supplies to an analysis: the selected variables, in  *)
(* order, and the time window.                                             *)

\* update_variable_list: the variables offered for selection.
VariableList(md) ==
    IF IsEmpty(md) THEN <<>>
    ELSE SelectSeq(md.columns, LAMBDA col : ~IsTimeLike(col) /\ ~IsPlaceholder(col))

\* get_selected_vars: nothing, one variable, or two different ones.
Selections(md) ==
    LET offered == Range(VariableList(md))
    IN {<<>>} \cup {<<c>> : c \in offered}
              \cup {p \in offered \X offered : p[1] # p[2]}

\* start_time_edit / end_time_edit: the whole span, a cut through both the
\* short files and the long series, and a window past all data.
Windows == {<<-10, 200>>, <<6, 120>>, <<150, 200>>}

\* df.loc[(df.index >= start_time) & (df.index <= end_time)]
TimeFilter(df, start_time, end_time) ==
    SelectRows(df, Where(df.index, LAMBDA t : start_time <= t /\ t <= end_time))

\* self.merged_data.loc[(index >= start_time) & (index <= end_time), selected]
WindowOf(md, selected, w) == SelectColumns(TimeFilter(md, w[1], w[2]), selected)

\* The greatest and the least of a non-empty set of integers.
Max(S) == CHOOSE x \in S : \A y \in S : y <= x
Min(S) == CHOOSE x \in S : \A y \in S : x <= y

\* The point at position i of the straight line through the cells at a and b.
Lerp(cells, i, a, b) ==
    RAdd(cells[a], RMul(RSub(cells[b], cells[a]), Rat(i - a, b - a)))

\* The value for the missing cell i; before and after are the positions of
\* the values on either side.
LinearFill(cells, i, before, after) ==
    IF before = {} THEN NaN
    ELSE IF after = {} THEN cells[Max(before)]
    ELSE Lerp(cells, i, Max(before), Min(after))

\* Series.interpolate() (linear, forward): a gap between two values is
\* filled along the straight line through them by position, a trailing gap
\* with the last value; a leading gap stays.
InterpolateColumn(cells) ==
    Tuple([i \in 1..Len(cells) |->
        IF cells[i] # NaN THEN cells[i]
        ELSE LinearFill(cells, i, {j \in 1..(i - 1) : cells[j] # NaN},
                        {j \in (i + 1)..Len(cells) : cells[j] # NaN})])

\* df with the cells of the columns cols.
FromColumns(df, cols) ==
    [df EXCEPT !.values =
        Table([i \in 1..Len(df.index) |-> [j \in 1..Len(df.columns) |-> cols[j][i]]])]

\* DataFrame.interpolate()
Interpolate(df) ==
    FromColumns(df, Tuple([j \in 1..Len(df.columns) |->
        InterpolateColumn(Tuple([i \in 1..Len(df.index) |-> df.values[i][j]]))]))

\* DataFrame.dropna(): the rows without a missing cell.
DropNa(df) ==
    SelectRows(df, Where(df.values, LAMBDA row : \A j \in 1..Len(row) : row[j] # NaN))

\* df.interpolate().dropna()
Clean(df) == DropNa(Interpolate(df))

\* A line of the result area.
Line(kind, about, data) == [kind |-> kind, about |-> about, data |-> data]

-----------------------------------------------------------------------------
(* compute_statistics. *)

RECURSIVE RSum(_)
\* The sum of a sequence of numbers (halving, to keep the nesting shallow).
RSum(xs) ==
    IF Len(xs) = 0 THEN Num(0)
    ELSE IF Len(xs) = 1 THEN xs[1]
    ELSE LET h == Len(xs) \div 2
         IN RAdd(RSum(SubSeq(xs, 1, h)), RSum(SubSeq(xs, h + 1, Len(xs))))

\* np.mean / Series.mean of a non-empty sequence of numbers.
Mean(xs) == RDiv(RSum(xs), Num(Len(xs)))

\* The smallest and the largest of a non-empty sequence of numbers.
Smallest(xs) == xs[CHOOSE i \in 1..Len(xs) : \A j \in 1..Len(xs) : RLe(xs[i], xs[j])]
Largest(xs) == xs[CHOOSE i \in 1..Len(xs) : \A j \in 1..Len(xs) : RLe(xs[j], xs[i])]

\* One row of the table: count, mean, min, max and missing_rate of a
\* column (std, the quartiles, skew and kurtosis are guarded by the same
\* test on count as mean is).
StatsOf(col, s, valid) ==
    Line("stats_row", col,
         [count |-> Len(valid),
          mean |-> IF Len(valid) # 0 THEN Mean(valid) ELSE NaN,
          min |-> IF Len(valid) # 0 THEN Smallest(valid) ELSE NaN,
          max |-> IF Len(valid) # 0 THEN Largest(valid) ELSE NaN,
          missing_rate |-> IF Len(s) = 0 THEN NaN
                           ELSE Rat(Len(s) - Len(valid), Len(s))])

StatsRow(df, col) ==
    StatsOf(col, Column(df, col), SelectSeq(Column(df, col), LAMBDA c : c # NaN))

\* The table for the window df.
StatsTable(df, selected) ==
    <<Line("stats_title", <<>>, <<>>)>> \o
    Tuple([k \in 1..Len(selected) |-> StatsRow(df, selected[k])])

\* A handler that fills the gaps of the dataset itself.
compute_statistics_InPlace(selected, w) ==
    /\ variant = "anylisis_data"
    /\ request' = [op |-> "compute_statistics", selected |-> selected, window |-> w]
    /\ IF IsEmpty(merged_data)
       THEN /\ status_bar' = <<Msg("load_data_first", <<>>)>>
            /\ UNCHANGED <<result_text, figure>>
       ELSE IF selected = <<>>
       THEN /\ status_bar' = <<Msg("select_variables", <<>>)>>
            /\ UNCHANGED <<result_text, figure>>
       ELSE /\ result_text' = StatsTable(WindowOf(merged_data, selected, w), selected)
            /\ status_bar' = <<Msg("statistics_done", <<>>)>>
            /\ UNCHANGED figure
    /\ merged_data' = Interpolate(merged_data)
    /\ UNCHANGED <<call, variant, disk, file_list, sampled>>

compute_statistics(selected, w) ==
    /\ variant = "anylisis_data"
    /\ request' = [op |-> "compute_statistics", selected |-> selected, window |-> w]
    /\ IF IsEmpty(merged_data)
       THEN /\ status_bar' = <<Msg("load_data_first", <<>>)>>
            /\ UNCHANGED <<result_text, figure>>
       ELSE IF selected = <<>>
       THEN /\ status_bar' = <<Msg("select_variables", <<>>)>>
            /\ UNCHANGED <<result_text, figure>>
       ELSE /\ result_text' = StatsTable(WindowOf(merged_data, selected, w), selected)
            /\ status_bar' = <<Msg("statistics_done", <<>>)>>
            /\ UNCHANGED figure
    /\ UNCHANGED <<call, variant, disk, file_list, merged_data, sampled>>

-----------------------------------------------------------------------------
(* compute_and_plot_correlation and compute_granger. *)

\* The coefficients themselves are not modelled: the report holds the title
\* and one row per selected variable, the figure the heat map.
\* A handler that clears the figure before it looks at the selection.
compute_and_plot_correlation_ClearsFigure(selected, w) ==
    /\ variant = "anylisis_data"
    /\ request' = [op |-> "compute_and_plot_correlation",
                   selected |-> selected, window |-> w]
    /\ IF IsEmpty(merged_data)
       THEN /\ status_bar' = <<Msg("load_data_first", <<>>)>>
            /\ UNCHANGED <<result_text, figure>>
       ELSE IF Len(selected) < 2
       THEN /\ status_bar' = <<Msg("select_two_variables", <<>>)>>
            /\ figure' = <<>>
            /\ UNCHANGED result_text
       ELSE IF IsEmpty(Clean(WindowOf(merged_data, selected, w)))
       THEN /\ status_bar' = <<Msg("not_enough_data", <<>>)>>
            /\ UNCHANGED <<result_text, figure>>
       ELSE /\ result_text' = <<Line("correlation_title", <<>>, <<>>)>> \o
                    Tuple([k \in 1..Len(selected) |->
                              Line("correlation_row", selected[k], <<>>)])
            /\ figure' = <<Line("heatmap", <<>>, selected)>>
            /\ status_bar' = <<Msg("correlation_done", <<>>)>>
    /\ UNCHANGED <<call, variant, disk, file_list, merged_data, sampled>>

compute_and_plot_correlation(selected, w) ==
    /\ variant = "anylisis_data"
    /\ request' = [op |-> "compute_and_plot_correlation",
                   selected |-> selected, window |-> w]
    /\ IF IsEmpty(merged_data)
       THEN /\ status_bar' = <<Msg("load_data_first", <<>>)>>
            /\ UNCHANGED <<result_text, figure>>
       ELSE IF Len(selected) < 2
       THEN /\ status_bar' = <<Msg("select_two_variables", <<>>)>>
            /\ UNCHANGED <<result_text, figure>>
       ELSE IF IsEmpty(Clean(WindowOf(merged_data, selected, w)))
       THEN /\ status_bar' = <<Msg("not_enough_data", <<>>)>>
            /\ UNCHANGED <<result_text, figure>>
       ELSE /\ result_text' = <<Line("correlation_title", <<>>, <<>>)>> \o
                    Tuple([k \in 1..Len(selected) |->
                              Line("correlation_row", selected[k], <<>>)])
            /\ figure' = <<Line("heatmap", <<>>, selected)>>
            /\ status_bar' = <<Msg("correlation_done", <<>>)>>
    /\ UNCHANGED <<call, variant, disk, file_list, merged_data, sampled>>

\* maxlag = min(10, max(1, int(len(df_clean) / 5)))
MaxLagCap == 10
LagDivisor == 5
\* A greatest lag without the cap.
MaxLag_Uncapped(n) == IF n \div LagDivisor < 1 THEN 1 ELSE n \div LagDivisor

MaxLag(n) ==
    LET q == n \div LagDivisor
        atLeastOne == IF q < 1 THEN 1 ELSE q
    IN IF atLeastOne > MaxLagCap THEN MaxLagCap ELSE atLeastOne

\* What grangercausalitytests answers for one pair: it raises ("error"), or
\* it gives one p-value per lag 1..maxlag. The p-values are levels 1 < 2 < ...
\* falling with the lag, rising with it, or all equal.
TestAnswers == {"error", "falling", "rising", "equal"}
PValues(answer, maxlag) ==
    Tuple([lag \in 1..maxlag |->
        IF answer = "falling" THEN maxlag + 1 - lag
        ELSE IF answer = "rising" THEN lag
        ELSE 1])

\* sorted(pvals, key=lambda z: z[1])[0]: the smallest p-value; the sort is
\* stable, so among equal p-values the smallest lag.
BestLag(pvals) ==
    CHOOSE lag \in 1..Len(pvals) :
        /\ \A other \in 1..Len(pvals) : pvals[lag] <= pvals[other]
        /\ \A other \in 1..(lag - 1) : pvals[other] # pvals[lag]

\* The pairs (i, j), i # j, in the order of the two loops.
OrderedPairs(n) ==
    SelectSeq(Flatten(Table([i \in 1..n |-> [j \in 1..n |-> <<i, j>>]])),
              LAMBDA pr : pr[1] # pr[2])

\* The line of one pair.
PairLine(selected, pr, pvals, best, maxlag) ==
    Line("granger_pair", <<selected[pr[1]], selected[pr[2]]>>,
         [best_lag |-> best, pvalue |-> pvals[best], maxlag |-> maxlag])

GrangerLine(selected, pr, answer, maxlag) ==
    IF answer = "error"
    THEN Line("granger_error", <<selected[pr[1]], selected[pr[2]]>>, <<>>)
    ELSE PairLine(selected, pr, PValues(answer, maxlag),
                  BestLag(PValues(answer, maxlag)), maxlag)

\* Loops that end at the first pair whose test raises.
RECURSIVE GrangerReport_StopAtError(_, _, _, _)
GrangerReport_StopAtError(selected, pairs, answers, maxlag) ==
    IF \E k \in 1..Len(pairs) : answers[k] = "error" /\ k < Len(pairs)
    THEN GrangerReport_StopAtError(selected, SubSeq(pairs, 1, Len(pairs) - 1),
                                   answers, maxlag)
    ELSE <<Line("granger_title", <<>>, <<>>)>> \o
         Tuple([k \in 1..Len(pairs) |->
                   GrangerLine(selected, pairs[k], answers[k], maxlag)])

\* The report of the loops over the pairs.
GrangerReport(selected, pairs, answers, maxlag) ==
    <<Line("granger_title", <<>>, <<>>)>> \o
    Tuple([k \in 1..Len(pairs) |->
              GrangerLine(selected, pairs[k], answers[k], maxlag)])

\* compute_granger from df_clean on.
GrangerOn(selected, answers, df_clean) ==
    IF IsEmpty(df_clean)
    THEN /\ status_bar' = <<Msg("not_enough_data", <<>>)>>
         /\ UNCHANGED result_text
    ELSE /\ result_text' = GrangerReport(selected, OrderedPairs(Len(selected)),
                                         answers, MaxLag(Len(df_clean.index)))
         /\ status_bar' = <<Msg("granger_done", <<>>)>>

\* compute_granger, statsmodels being installed; answers[k] is what the test
\* answers for the k-th pair.
compute_granger(selected, w, answers) ==
    /\ variant = "anylisis_data"
    /\ request' = [op |-> "compute_granger", selected |-> selected, window |-> w,
                   answers |-> answers]
    /\ IF IsEmpty(merged_data)
       THEN /\ status_bar' = <<Msg("load_data_first", <<>>)>>
            /\ UNCHANGED result_text
       ELSE IF Len(selected) < 2
       THEN /\ status_bar' = <<Msg("select_two_variables", <<>>)>>
            /\ UNCHANGED result_text
       ELSE GrangerOn(selected, answers, Clean(WindowOf(merged_data, selected, w)))
    /\ UNCHANGED <<call, variant, disk, file_list, merged_data, figure, sampled>>

\* The answers the test can give for the pairs of a selection: one per
\* pair when the handler gets as far as the tests, none otherwise.
AnswersFor(md, selected, w) ==
    IF IsEmpty(md) \/ Len(selected) < 2 THEN {<<>>}
    ELSE IF IsEmpty(Clean(WindowOf(md, selected, w))) THEN {<<>>}
    ELSE [1..Len(OrderedPairs(Len(selected))) -> TestAnswers]

-----------------------------------------------------------------------------
(* _detect_steps. Positions are counted from 0, as in the script. *)

DetectMinLen == 10
PeakDistance == 5
HalfWindow == 8

\* The k-th smallest (k from 1) of a sequence of numbers.
KthSmallest(xs, k) ==
    xs[CHOOSE i \in 1..Len(xs) :
        /\ Cardinality({j \in 1..Len(xs) : RLt(xs[j], xs[i])}) < k
        /\ k <= Cardinality({j \in 1..Len(xs) : RLe(xs[j], xs[i])})]

\* np.median / the rolling median of a non-empty sequence of numbers.
Median(xs) ==
    LET m == Len(xs)
    IN IF m % 2 = 1 THEN KthSmallest(xs, (m + 1) \div 2)
       ELSE RDiv(RAdd(KthSmallest(xs, m \div 2), KthSmallest(xs, m \div 2 + 1)),
                 Num(2))

\* np.diff
Diff(vals) == Tuple([i \in 1..(Len(vals) - 1) |-> RSub(vals[i + 1], vals[i])])

\* .rolling(window=3, min_periods=1, center=True).median(): the median of
\* the sample and its neighbours, as far as they exist.
RollingMedian(xs) ==
    Tuple([i \in 1..Len(xs) |->
        Median(SubSeq(xs, IF i = 1 THEN 1 ELSE i - 1,
                          IF i = Len(xs) THEN i ELSE i + 1))])

\* scipy's _local_maxima_1d: a sample, or the middle of a run of equal
\* samples, that is higher than both neighbours; never the first or the
\* last sample. x is the signal; the result is a set of positions from 0.
LocalMaxima(x) ==
    LET m == Len(x)
        X(i) == x[i + 1]
        RunEnd(l) == CHOOSE r \in l..(m - 1) :
                        /\ \A j \in l..r : X(j) = X(l)
                        /\ r = m - 1 \/ X(r + 1) # X(l)
    IN {(l + RunEnd(l)) \div 2 :
            l \in {i \in 1..(m - 2) :
                      /\ RLt(X(i - 1), X(i))
                      /\ RunEnd(i) <= m - 2
                      /\ RLt(X(RunEnd(i) + 1), X(i))}}

\* The order in which _select_by_peak_distance visits the peaks: highest
\* first, and of equally high ones the rightmost first.
RECURSIVE ByPriority(_, _)
ByPriority(x, peaks) ==
    IF peaks = {} THEN <<>>
    ELSE LET top == CHOOSE q \in peaks : \A o \in peaks :
                        \/ RLt(x[o + 1], x[q + 1])
                        \/ (x[o + 1] = x[q + 1] /\ o <= q)
         IN <<top>> \o ByPriority(x, peaks \ {top})

\* _select_by_peak_distance: a visited peak that is still kept removes
\* every other peak closer than distance. The result is what is removed.
RECURSIVE TooClose(_, _, _, _)
TooClose(order, peaks, distance, removed) ==
    IF order = <<>> THEN removed
    ELSE LET j == Head(order)
         IN IF j \in removed
            THEN TooClose(Tail(order), peaks, distance, removed)
            ELSE TooClose(Tail(order), peaks, distance,
                    removed \cup {k \in peaks : k # j /\ Abs(k - j) < distance})

\* scipy's peak_prominences (no wlen): the height of the peak above the
\* higher of the two lowest points between it and the next higher sample
\* (or the end of the signal) on either side.
Prominence(x, peak) ==
    LET m == Len(x)
        X(i) == x[i + 1]
        higherLeft == {i \in 0..(peak - 1) : RLt(X(peak), X(i))}
        higherRight == {i \in (peak + 1)..(m - 1) : RLt(X(peak), X(i))}
        from == IF higherLeft = {} THEN 0
                ELSE 1 + CHOOSE i \in higherLeft : \A k \in higherLeft : k <= i
        to == IF higherRight = {} THEN m - 1
              ELSE (CHOOSE i \in higherRight : \A k \in higherRight : i <= k) - 1
        left_min == Smallest(SubSeq(x, from + 1, peak + 1))
        right_min == Smallest(SubSeq(x, peak + 1, to + 1))
    IN RSub(X(peak), RMax(left_min, right_min))

\* The maxima left by _select_by_peak_distance.
Thinned(x, maxima, distance) ==
    maxima \ TooClose(ByPriority(x, maxima), maxima, distance, {})

\* A peak finder that takes every inner sample not lower than its
\* neighbours, whatever its prominence.
FindPeaks_EveryFlatPoint(x, prominence, distance) ==
    SortAsc({q \in 1..(Len(x) - 2) :
                RLe(x[q], x[q + 1]) /\ RLe(x[q + 2], x[q + 1])})

\* scipy.signal.find_peaks(x, prominence=prominence, distance=distance):
\* the local maxima, thinned by distance, then those prominent enough, in
\* increasing order.
FindPeaks(x, prominence, distance) ==
    SortAsc({q \in Thinned(x, LocalMaxima(x), distance) :
                RLe(prominence, Prominence(x, q))})

\* np.abs(xs - med)
AbsDeviations(xs, med) ==
    Tuple([i \in 1..Len(xs) |-> RAbs(RSub(xs[i], med))])

\* prominence = max(1e-6, 3 * mad)
AdaptiveProminence(diff_s) ==
    RMax(Rat(1, 1000000),
         RMul(Num(3), Median(AbsDeviations(diff_s, Median(diff_s)))))

\* A window of two samples either side of the peak.
StepWindow_Narrow(n, peak) ==
    <<IF peak - 2 < 0 THEN 0 ELSE peak - 2,
      IF peak + 2 > n - 1 THEN n - 1 ELSE peak + 2>>

\* A window that runs past the ends of the series.
StepWindow_Unclamped(n, peak) == <<peak - HalfWindow, peak + HalfWindow>>

\* The window of a peak: (max(0, p - 8), min(len(vals) - 1, p + 8)).
StepWindow(n, peak) ==
    <<IF peak - HalfWindow < 0 THEN 0 ELSE peak - HalfWindow,
      IF peak + HalfWindow > n - 1 THEN n - 1 ELSE peak + HalfWindow>>

\* Windows of the peak alone.
StepWindows_AtPeak(n, peaks) ==
    Tuple([k \in 1..Len(peaks) |-> <<peaks[k], peaks[k]>>])

StepWindows(n, peaks) ==
    Tuple([k \in 1..Len(peaks) |-> StepWindow(n, peaks[k])])

\* find_peaks(np.abs(diff_s), prominence=prominence, distance=distance)
StepPeaks(diff_s) ==
    FindPeaks(AbsDeviations(diff_s, Num(0)), AdaptiveProminence(diff_s), PeakDistance)

\* The peaks _detect_steps makes its windows of (none for a short series).
DetectPeaks(vals) ==
    IF Len(vals) < DetectMinLen THEN <<>>
    ELSE StepPeaks(RollingMedian(Diff(vals)))

\* _detect_steps(series) with the default prominence and distance.
DetectSteps(vals) ==
    IF Len(vals) < DetectMinLen THEN <<>>
    ELSE StepWindows(Len(vals), StepPeaks(RollingMedian(Diff(vals))))

-----------------------------------------------------------------------------
(* estimate_pid_for_selected. *)

MinSamples == 30
MinSegment == 6
SteadySpan == 10

\* The tuning suggestion from the fitted K_est and tau_est. Numbers are the
\* reals the floating-point values stand for.
Eps == Rat(1, 1000000000)

\* a < Eps for a >= 0, without a product that leaves the range of the
\* integers.
BelowEps(a) == a[1] <= (a[2] - 1) \div Eps[2]

\* A delay that follows tau_est below zero.
L_est_Unclamped(tau_est) == RMul(Rat(1, 10), tau_est)

\* L_est = max(0.0, 0.1 * tau_est)
L_est(tau_est) == RMax(Num(0), RMul(Rat(1, 10), tau_est))

\* if abs(K_est) < 1e-9: K_est = 1e-9
K_floored(K_est) == IF BelowEps(RAbs(K_est)) THEN Eps ELSE K_est

\* Kp_zn = (1.2 * tau_est) / (abs(K_est) * (L_est + 1e-9)), K_est floored,
\* kept as its three operands: the quotient is over / (by * (plus + Eps)).
Kp_zn(K_est, tau_est, L) ==
    [over |-> RMul(Rat(12, 10), tau_est), by |-> RAbs(K_est), plus |-> L]

Ti_zn(L) == RMul(Num(2), L)
Td_zn(L) == RMul(Rat(1, 2), L)

\* The numbers of the suggestion line.
Suggestion(K_est, tau_est, L) ==
    [L |-> L, Kp |-> Kp_zn(K_floored(K_est), tau_est, L),
     Ti |-> Ti_zn(L), Td |-> Td_zn(L)]

\* vals[lo:hi+1] for positions counted from 0.
Slice(vals, lo, hi) == SubSeq(vals, lo + 1, hi + 1)

\* pre_mean = np.mean(vals[max(0, start_idx-10):start_idx+1])
PreMean(vals, start_idx) ==
    Mean(Slice(vals, IF start_idx - SteadySpan < 0 THEN 0 ELSE start_idx - SteadySpan,
               start_idx))

\* post_mean = np.mean(vals[end_idx:min(len(vals)-1, end_idx+10)+1])
PostMean(vals, end_idx) ==
    Mean(Slice(vals, end_idx,
               IF end_idx + SteadySpan > Len(vals) - 1 THEN Len(vals) - 1
               ELSE end_idx + SteadySpan))

\* Whether the loop calls curve_fit for a column of these values; steps is
\* what _detect_steps found in them.
FitCalledOn(vals, steps) ==
    /\ Len(vals) >= MinSamples
    /\ steps # <<>>
    /\ steps[1][2] - steps[1][1] + 1 >= MinSegment

FitCalled(vals) == FitCalledOn(vals, DetectSteps(vals))

\* The lines about the first step window.
StepLines(df_clean, col, vals, start_idx, end_idx) ==
    <<Line("step_window", col, <<start_idx, end_idx>>),
      Line("step_time", col, <<df_clean.index[start_idx + 1],
                                df_clean.index[end_idx + 1]>>),
      Line("steady_values", col, <<PreMean(vals, start_idx),
                                   PostMean(vals, end_idx)>>)>>

\* One pass of the loop over the columns: the lines written and the curves
\* drawn for col, whose values are vals and whose steps are steps. fit is
\* what curve_fit does when called: "converges" or "raises".
PidOutcome(df_clean, col, vals, steps, fit) ==
    IF Len(vals) < MinSamples
    THEN [lines |-> <<Line("pid_variable", col, <<>>),
                      Line("too_few_samples", col, <<>>)>>,
          plots |-> <<>>]
    ELSE IF steps = <<>>
    THEN [lines |-> <<Line("pid_variable", col, <<>>),
                      Line("no_step_found", col, <<>>)>>,
          plots |-> <<>>]
    ELSE IF steps[1][2] - steps[1][1] + 1 < MinSegment
    THEN [lines |-> <<Line("pid_variable", col, <<>>),
                      Line("step_window_too_short", col, <<>>)>>,
          plots |-> <<>>]
    ELSE IF fit = "converges"
    THEN [lines |-> <<Line("pid_variable", col, <<>>)>> \o
                    StepLines(df_clean, col, vals, steps[1][1], steps[1][2]) \o
                    <<Line("fit_result", col, <<>>),
                      Line("pid_suggestion", col, <<>>)>>,
          plots |-> <<Line("plot_raw", col, <<>>),
                      Line("plot_fit", col, steps[1]),
                      Line("step_marker", col, <<steps[1][1]>>)>>]
    ELSE [lines |-> <<Line("pid_variable", col, <<>>)>> \o
                    StepLines(df_clean, col, vals, steps[1][1], steps[1][2]) \o
                    <<Line("fit_failed", col, <<>>)>>,
          plots |-> <<Line("plot_raw_fit_failed", col, <<>>)>>]

PidColumn(df_clean, col, fit) ==
    PidOutcome(df_clean, col, Column(df_clean, col),
               DetectSteps(Column(df_clean, col)), fit)

\* What the handler shows once the loop is over; per[k] is the outcome of
\* the k-th column.
PidShown(per) ==
    /\ result_text' = <<Line("pid_title", <<>>, <<>>)>> \o
                       Flatten(Tuple([k \in 1..Len(per) |-> per[k].lines]))
    /\ figure' = <<Line("axes", <<>>, <<>>)>> \o
                  Flatten(Tuple([k \in 1..Len(per) |-> per[k].plots]))
    /\ status_bar' = <<Msg("pid_done", <<>>)>>

\* A loop over the columns that a raising fit ends: the columns after it
\* are neither computed nor reported.
PidOn_StopAtFailure(selected, fits, df_clean) ==
    IF IsEmpty(df_clean)
    THEN /\ status_bar' = <<Msg("not_enough_data", <<>>)>>
         /\ UNCHANGED <<result_text, figure>>
    ELSE PidShown(Tuple([k \in {k \in 1..Len(selected) :
                                   \A before \in 1..(k - 1) : fits[before] # "raises"} |->
                            PidColumn(df_clean, selected[k], fits[k])]))

\* estimate_pid_for_selected from df_clean on.
PidOn(selected, fits, df_clean) ==
    IF IsEmpty(df_clean)
    THEN /\ status_bar' = <<Msg("not_enough_data", <<>>)>>
         /\ UNCHANGED <<result_text, figure>>
    ELSE PidShown(Tuple([k \in 1..Len(selected) |->
                            PidColumn(df_clean, selected[k], fits[k])]))

estimate_pid_for_selected(selected, w, fits) ==
    /\ variant = "anylisis_data"
    /\ request' = [op |-> "estimate_pid_for_selected", selected |-> selected,
                   window |-> w, fits |-> fits]
    /\ IF IsEmpty(merged_data)
       THEN /\ status_bar' = <<Msg("load_data_first", <<>>)>>
            /\ UNCHANGED <<result_text, figure>>
       ELSE IF selected = <<>>
       THEN /\ status_bar' = <<Msg("select_variables", <<>>)>>
            /\ UNCHANGED <<result_text, figure>>
       ELSE PidOn(selected, fits, Clean(WindowOf(merged_data, selected, w)))
    /\ UNCHANGED <<call, variant, disk, file_list, merged_data, sampled>>

\* What curve_fit can do for the columns of a selection: for a column that
\* gets as far as the fit it converges or raises, for the others it is not
\* called. called[k] tells which.
FitsOn(called) ==
    {fits \in [1..Len(called) -> {"converges", "raises", "not_called"}] :
        \A k \in 1..Len(called) : fits[k] = "not_called" <=> ~called[k]}

FitsOf(selected, df_clean) ==
    IF IsEmpty(df_clean) THEN {<<>>}
    ELSE FitsOn(Tuple([k \in 1..Len(selected) |->
                          FitCalled(Column(df_clean, selected[k]))]))

FitsFor(md, selected, w) ==
    IF IsEmpty(md) \/ selected = <<>> THEN {<<>>}
    ELSE FitsOf(selected, Clean(WindowOf(md, selected, w)))

-----------------------------------------------------------------------------
(* generate_fuzzy_rules. *)

TopK == 20

\* Series.quantile(q) for q = pct/100 (linear interpolation between the
\* two nearest order statistics), in exact arithmetic.
Quantile(xs, pct) ==
    LET n == Len(xs)
        pos == (n - 1) * pct
        lo == pos \div 100
        below == KthSmallest(xs, lo + 1)
    IN IF pos % 100 = 0 THEN below
       ELSE RAdd(below, RMul(Rat(pos % 100, 100),
                             RSub(KthSmallest(xs, lo + 2), below)))

\* A labelling with open boundaries: a value on a threshold is medium.
fuzzify_val_OpenBoundaries(lo, hi, val) ==
    IF RLt(val, lo) THEN "low"
    ELSE IF RLt(hi, val) THEN "high"
    ELSE "medium"

\* fuzzify_val
fuzzify_val(lo, hi, val) ==
    IF RLe(val, lo) THEN "low"
    ELSE IF RLe(hi, val) THEN "high"
    ELSE "medium"

\* q_lo = df_clean.quantile(0.33), q_hi = df_clean.quantile(0.66)
\* Thresholds in the tails: the 10th percentile for the lower one, the 90th
\* for the upper one.
Quantiles_Tails(df_clean, selected, pct) ==
    Tuple([j \in 1..Len(selected) |->
        Quantile(Column(df_clean, selected[j]), IF pct < 50 THEN 10 ELSE 90)])

Quantiles(df_clean, selected, pct) ==
    Tuple([j \in 1..Len(selected) |-> Quantile(Column(df_clean, selected[j]), pct)])

\* The key of every row: the labels of the inputs (all columns but the
\* last) and the label of the output (the last column).
FuzzyKeys(df_clean, n, q_lo, q_hi) ==
    Tuple([i \in 1..Len(df_clean.index) |->
        <<Tuple([j \in 1..(n - 1) |->
                    fuzzify_val(q_lo[j], q_hi[j], df_clean.values[i][j])]),
          fuzzify_val(q_lo[n], q_hi[n], df_clean.values[i][n])>>])

\* A count of one for every row.
KeyCounts_Once(keys) == Tuple([i \in 1..Len(keys) |-> 1])

\* The rows that bring a new key (the insertion order of rules_count), and
\* for every row the number of rows with its key.
FirstRows(keys) ==
    SelectSeq(Tuple([i \in 1..Len(keys) |-> i]),
              LAMBDA i : \A j \in 1..(i - 1) : keys[j] # keys[i])
KeyCounts(keys) ==
    Tuple([i \in 1..Len(keys) |-> Cardinality({j \in 1..Len(keys) : keys[j] = keys[i]})])

RuleAt(keys, counts, i) ==
    [antecedent |-> keys[i][1], consequent |-> keys[i][2], count |-> counts[i]]

\* A sort that puts, among rules of equal count, the later rule first.
RankedRules_LaterFirst(keys, firsts, counts) ==
    Tuple([r \in 1..Len(firsts) |->
        RuleAt(keys, counts,
               CHOOSE i \in Range(firsts) :
                   Cardinality({j \in Range(firsts) :
                       \/ counts[j] > counts[i]
                       \/ (counts[j] = counts[i] /\ j > i)}) = r - 1)])

\* sorted(rules_count.items(), key=lambda x: x[1], reverse=True): by falling
\* count; the sort is stable, so equal counts keep the insertion order.
RankedRules(keys, firsts, counts) ==
    Tuple([r \in 1..Len(firsts) |->
        RuleAt(keys, counts,
               CHOOSE i \in Range(firsts) :
                   Cardinality({j \in Range(firsts) :
                       \/ counts[j] > counts[i]
                       \/ (counts[j] = counts[i] /\ j < i)}) = r - 1)])

SortedRules(keys) == RankedRules(keys, FirstRows(keys), KeyCounts(keys))

\* The report: the title, the format line and sorted_rules[:top_k].
FuzzyReport(selected, rules, top_k) ==
    <<Line("fuzzy_title", <<>>, selected), Line("fuzzy_format", <<>>, <<>>)>> \o
    Tuple([r \in 1..(IF Len(rules) > top_k THEN top_k ELSE Len(rules)) |->
              Line("fuzzy_rule", <<>>, rules[r])])

\* generate_fuzzy_rules from df_clean on.
FuzzyOn(selected, top_k, df_clean) ==
    IF IsEmpty(df_clean)
    THEN /\ status_bar' = <<Msg("not_enough_data", <<>>)>>
         /\ UNCHANGED result_text
    ELSE /\ result_text' =
                FuzzyReport(selected,
                    SortedRules(FuzzyKeys(df_clean, Len(selected),
                                          Quantiles(df_clean, selected, 33),
                                          Quantiles(df_clean, selected, 66))),
                    top_k)
         /\ status_bar' = <<Msg("fuzzy_done", <<>>)>>

\* btn_fuzzy.clicked.connect(self.generate_fuzzy_rules): the signal
\* clicked(bool) carries the checked flag of the button, which is False. The
\* slot's only parameter is top_k: the binding either hands it the flag (a
\* slice [:False], of no rule) or drops the flag (the default top_k).
Clicked == {0, TopK}

generate_fuzzy_rules(selected, w, top_k) ==
    /\ variant = "anylisis_data"
    /\ request' = [op |-> "generate_fuzzy_rules", selected |-> selected,
                   window |-> w, top_k |-> top_k]
    /\ IF IsEmpty(merged_data)
       THEN /\ status_bar' = <<Msg("load_data_first", <<>>)>>
            /\ UNCHANGED result_text
       ELSE IF Len(selected) < 2
       THEN /\ status_bar' = <<Msg("select_two_variables", <<>>)>>
            /\ UNCHANGED result_text
       ELSE FuzzyOn(selected, top_k, Clean(WindowOf(merged_data, selected, w)))
    /\ UNCHANGED <<call, variant, disk, file_list, merged_data, figure, sampled>>

-----------------------------------------------------------------------------
(* _apply_time_filter_and_sampling and export_merged_data                  *)
(* (show_data_large_data.py).                                              *)

\* The entries of freq_combo that the model selects ("raw" stands for the
\* entry that asks for the original data) and their periods in seconds.
Freqs == {"raw", "5S", "1T"}
Period(freq) == IF freq = "5S" THEN 5 ELSE 60

\* The entries of agg_combo.
Aggs == {"mean", "first", "max", "min", "median"}

\* One aggregate of the cells of a bucket: of the numbers among them
\* (valid); with none, missing.
AggregateOf(agg, valid) ==
    IF valid = <<>> THEN NaN
    ELSE IF agg = "mean" THEN Mean(valid)
    ELSE IF agg = "first" THEN valid[1]
    ELSE IF agg = "max" THEN Largest(valid)
    ELSE IF agg = "min" THEN Smallest(valid)
    ELSE Median(valid)

Aggregate(agg, cells) == AggregateOf(agg, SelectSeq(cells, LAMBDA c : c # NaN))

\* A bucket labelled by its right edge.
Bucket_RightEdge(t, period) == (t \div period + 1) * period

\* The bucket of an instant: pandas labels a bucket by its left edge, and
\* the edges are the multiples of the period (counted from midnight).
Bucket(t, period) == (t \div period) * period

\* The buckets that hold an instant of index.
Buckets(index, period) == {Bucket(index[i], period) : i \in 1..Len(index)}

\* Every bucket from first to last.
Grid(first, last, period) ==
    Tuple([k \in 1..((last - first) \div period + 1) |-> first + (k - 1) * period])

\* The row of one bucket; rows are the positions of its instants.
BucketRow(df, rows, agg) ==
    Tuple([j \in 1..Len(df.columns) |->
        Aggregate(agg, Tuple([r \in 1..Len(rows) |-> df.values[rows[r]][j]]))])

\* The positions of the instants times, instant after instant (resample
\* orders the rows by time with a stable sort before it groups them).
RowsAt(index, times) ==
    Flatten(Tuple([n \in 1..Len(times) |-> Where(index, LAMBDA t : t = times[n])]))

ResampleOn(df, grid, period, agg) ==
    [index |-> grid,
     columns |-> df.columns,
     values |-> Tuple([k \in 1..Len(grid) |->
        BucketRow(df, RowsAt(df.index,
                             SortAsc({t \in Range(df.index) :
                                         Bucket(t, period) = grid[k]})), agg)])]

\* A resampling that leaves the rows as they are.
Resample_Unbucketed(df, period, agg) == df

\* df.resample(freq).agg(agg, numeric_only=True) of a non-empty frame: one
\* row per bucket from the first instant's to the last instant's, empty
\* buckets included.
Resample(df, period, agg) ==
    ResampleOn(df, Grid(Min(Buckets(df.index, period)),
                        Max(Buckets(df.index, period)), period),
               period, agg)

\* A dropna that drops nothing.
DropAllNa_KeepAll(df) == df

\* DataFrame.dropna(how='all'): the rows that hold some value.
DropAllNa(df) ==
    SelectRows(df, Where(df.values, LAMBDA row : \E j \in 1..Len(row) : row[j] # NaN))

\* _apply_time_filter_and_sampling from the filtered frame on; raises tells
\* whether the resampling raises. The result is the frame returned and the
\* message shown, if any.
Sampling(filtered, freq, agg, raises) ==
    IF IsEmpty(filtered) THEN [df |-> filtered, msgs |-> <<>>]
    ELSE IF freq = "raw" THEN [df |-> filtered, msgs |-> <<>>]
    ELSE IF raises THEN [df |-> filtered, msgs |-> <<Msg("sampling_failed", <<>>)>>]
    ELSE [df |-> DropAllNa(Resample(filtered, Period(freq), agg)), msgs |-> <<>>]

\* _apply_time_filter_and_sampling(df)
ApplyTimeFilterAndSampling(df, w, freq, agg, raises) ==
    IF IsEmpty(df) THEN [df |-> df, msgs |-> <<>>]
    ELSE Sampling(TimeFilter(df, w[1], w[2]), freq, agg, raises)

\* export_merged_data once the frame to write is r.df.
Exported(r, apply_sampling) ==
    /\ sampled' = IF apply_sampling THEN r.df ELSE EmptyFrame
    /\ status_bar' = r.msgs \o
            <<IF IsEmpty(r.df) THEN Msg("box_export_empty", <<>>)
              ELSE Msg("exported", <<>>)>>

\* export_merged_data, the save dialog giving a path and to_csv succeeding.
export_merged_data(w, freq, agg, apply_sampling, raises) ==
    /\ variant = "show_data_large_data"
    /\ request' = [op |-> "export_merged_data", window |-> w, freq |-> freq,
                   agg |-> agg, apply_sampling |-> apply_sampling,
                   raises |-> raises]
    /\ IF IsEmpty(merged_data)
       THEN /\ status_bar' = <<Msg("box_nothing_to_export", <<>>)>>
            /\ sampled' = EmptyFrame
       ELSE IF apply_sampling
       THEN Exported(ApplyTimeFilterAndSampling(merged_data, w, freq, agg, raises), TRUE)
       ELSE Exported([df |-> TimeFilter(merged_data, w[1], w[2]), msgs |-> <<>>], FALSE)
    /\ UNCHANGED <<call, variant, disk, file_list, merged_data, result_text, figure>>

\* _get_selected_vars of the large-data script: the checked boxes, in the
\* order of the variable list.
RECURSIVE SubSeqs(_)
SubSeqs(s) ==
    IF s = <<>> THEN {<<>>}
    ELSE SubSeqs(Tail(s)) \cup {<<Head(s)>> \o t : t \in SubSeqs(Tail(s))}
Checked(md) == SubSeqs(VariableList(md))

\* df.sort_index(): the rows by rising time, rows of one instant in the
\* order they had.
SortIndex(df) == SelectRows(df, RowsAt(df.index, SortAsc(Range(df.index))))

\* _build_current_dataframe from the filtered and sampled table on.
CurrentOf(r, selected_vars) ==
    IF IsEmpty(r.df) THEN r
    ELSE [df |-> SortIndex(SelectColumns(r.df, selected_vars)), msgs |-> r.msgs]

BuildCurrentDataframe(md, selected_vars, w, freq, agg, raises) ==
    IF IsEmpty(md) \/ selected_vars = <<>>
    THEN [df |-> EmptyFrame, msgs |-> <<>>]
    ELSE CurrentOf(ApplyTimeFilterAndSampling(md, w, freq, agg, raises),
                   selected_vars)

\* A table without its index column.
ToCsv_NoIndex(path, df) ==
    [path |-> path,
     header |-> df.columns,
     rows |-> Tuple([i \in 1..Len(df.index) |-> df.values[i]])]

\* df_out.index.name = "time"; df_out.to_csv(file_path): a header of the
\* index name and the column names, then a row per row of the table: the
\* text of its instant, and for each cell the text of its number (the
\* shortest that reads back as the same number) or nothing for a missing
\* cell.
ToCsv(path, df) ==
    [path |-> path,
     header |-> << <<"time">> >> \o df.columns,
     rows |-> Tuple([i \in 1..Len(df.index) |-> << <<df.index[i]>> >> \o df.values[i]])]

\* The file dialog of an export: dismissed, or a path given and the file
\* then written or the writing failed.
OutPath == Csv("d1", <<"out">>)
Outcomes == {"dismissed", "failed", "written"}

\* export_current_data from the current table on.
ExportedCurrent(r, outcome) ==
    IF IsEmpty(r.df)
    THEN /\ status_bar' = r.msgs \o <<Msg("box_nothing_current", <<>>)>>
         /\ UNCHANGED <<disk, sampled>>
    ELSE IF outcome = "dismissed"
    THEN /\ status_bar' = r.msgs
         /\ UNCHANGED <<disk, sampled>>
    ELSE IF outcome = "failed"
    THEN /\ status_bar' = r.msgs \o <<Msg("export_failed", <<>>)>>
         /\ UNCHANGED <<disk, sampled>>
    ELSE /\ disk' = {f \in disk : f.path # OutPath} \cup {ToCsv(OutPath, r.df)}
         /\ sampled' = r.df
         /\ status_bar' = r.msgs \o <<Msg("exported_current", OutPath)>>

export_current_data(selected_vars, w, freq, agg, raises, outcome) ==
    /\ variant = "show_data_large_data"
    /\ request' = [op |-> "export_current_data", selected |-> selected_vars,
                   window |-> w, freq |-> freq, agg |-> agg, raises |-> raises,
                   outcome |-> outcome]
    /\ ExportedCurrent(BuildCurrentDataframe(merged_data, selected_vars, w,
                                             freq, agg, raises), outcome)
    /\ UNCHANGED <<call, variant, file_list, merged_data, result_text, figure>>

-----------------------------------------------------------------------------
(* The state machine. *)

\* show_data loads and clears as anylisis_data does (it has no report area,
\* no analysis and no export of data).
Variants == {"anylisis_data", "show_data", "show_data_large_data"}

Init ==
    /\ variant \in Variants
    /\ disk \in Disks
    /\ file_list = <<>>
    /\ merged_data = EmptyFrame
    /\ status_bar = <<>>
    /\ result_text = <<>>
    /\ figure = <<>>
    /\ sampled = EmptyFrame
    /\ request = [op |-> "init"]
    /\ call = [fn |-> "none"]

\* The last thing done was to load or to clear: the model runs one analysis
\* or one export on what was loaded (a session loads its files, runs one,
\* and clears).
Blank == request.op \in {"init", "load_files", "clear_files"}

Next ==
    \/ \E files \in Batches(disk) : load_files(files)
    \/ clear_files
    \/ Blank /\ \E selected \in Selections(merged_data), w \in Windows :
            compute_statistics(selected, w)
    \/ Blank /\ \E selected \in Selections(merged_data), w \in Windows :
            compute_and_plot_correlation(selected, w)
    \/ Blank /\ \E selected \in Selections(merged_data), w \in Windows :
            \E answers \in AnswersFor(merged_data, selected, w) :
                compute_granger(selected, w, answers)
    \/ Blank /\ \E selected \in Selections(merged_data), w \in Windows :
            \E fits \in FitsFor(merged_data, selected, w) :
                estimate_pid_for_selected(selected, w, fits)
    \/ Blank /\ \E selected \in Selections(merged_data), w \in Windows :
            \E top_k \in Clicked : generate_fuzzy_rules(selected, w, top_k)
    \/ Blank /\ \E w \in Windows, freq \in Freqs, agg \in Aggs, raises \in BOOLEAN :
            export_merged_data(w, freq, agg, TRUE, raises)
    \/ Blank /\ \E w \in Windows : export_merged_data(w, "raw", "mean", FALSE, FALSE)

Spec == Init /\ [][Next]_vars

-----------------------------------------------------------------------------
(* The helpers on their own: a helper is applied to an input drawn from a  *)
(* bounded set, and call records the input and what the helper returned.   *)
(* A behaviour applies one helper once; the window and its handlers stay   *)
(* as constructed.                                                         *)

Handlers ==
    <<variant, disk, file_list, merged_data, status_bar, result_text, figure,
      sampled, request>>

HelperInit ==
    /\ variant = "anylisis_data"
    /\ disk = {}
    /\ file_list = <<>>
    /\ merged_data = EmptyFrame
    /\ status_bar = <<>>
    /\ result_text = <<>>
    /\ figure = <<>>
    /\ sampled = EmptyFrame
    /\ request = [op |-> "init"]
    /\ call = [fn |-> "none"]

\* The levels of the series.
Levels == {Num(-2), Num(0), Num(6), Rat(7, 2)}

\* A series of n samples, all at level c.
FlatSeries(n, c) == Tuple([i \in 1..n |-> c])

\* A series of n samples that holds lo up to position at (from 0), climbs
\* to hi in equal parts over the next `over` differences, and holds hi.
StepSeries(n, at, over, lo, hi) ==
    Tuple([i \in 1..n |->
        IF i - 1 <= at THEN lo
        ELSE IF i - 1 >= at + over THEN hi
        ELSE RAdd(lo, RMul(RSub(hi, lo), Rat(i - 1 - at, over)))])

\* The shapes of the series handed to _detect_steps: flat ones of every
\* length, and ones of 40 samples or more with one step that has at least
\* ten flat samples on either side; ones of 30 or 31 samples with one step
\* anywhere; and two-level ones of up to MaxWiggleLen samples.
Shapes ==
    {[kind |-> "flat", n |-> n, lo |-> c, hi |-> c, at |-> 0, over |-> 0] :
        n \in 0..MaxSeriesLen, c \in Levels}
    \cup
    {s \in [kind : {"step"}, n : 40..MaxSeriesLen, lo : {Num(0), Num(6)},
            hi : {Num(0), Num(6)}, at : 9..(MaxSeriesLen - 10),
            over : 1..MaxTransition] :
        s.lo # s.hi /\ s.at + s.over + 10 <= s.n}
    \cup
    {s \in [kind : {"edge"}, n : MinSamples..(MinSamples + 1),
            lo : {Num(0), Num(6)}, hi : {Num(0), Num(6)},
            at : 0..(MinSamples - 1), over : 1..MaxTransition] :
        s.lo # s.hi /\ s.at + s.over <= s.n - 1}
    \cup
    UNION {{[kind |-> "wiggle", n |-> n, lo |-> Num(0), hi |-> Num(6),
             at |-> code, over |-> 0] : code \in 0..(2 ^ n - 1)} :
              n \in DetectMinLen..MaxWiggleLen}

\* The series of n samples whose i-th sample is hi where the i-th binary
\* digit of code is 1, and lo elsewhere.
WiggleSeries(n, code, lo, hi) ==
    Tuple([i \in 1..n |-> IF (code \div 2 ^ (i - 1)) % 2 = 1 THEN hi ELSE lo])

SeriesOf(s) ==
    IF s.kind = "flat" THEN FlatSeries(s.n, s.lo)
    ELSE IF s.kind = "wiggle" THEN WiggleSeries(s.n, s.at, s.lo, s.hi)
    ELSE StepSeries(s.n, s.at, s.over, s.lo, s.hi)

\* _detect_steps(series)
Detected(shape, series) ==
    call' = [fn |-> "_detect_steps", shape |-> shape, series |-> series,
             peaks |-> DetectPeaks(series), steps |-> DetectSteps(series)]

detect_steps(shape) ==
    /\ call.fn = "none"
    /\ Detected(shape, SeriesOf(shape))
    /\ UNCHANGED Handlers

DetectNext == \E shape \in Shapes : detect_steps(shape)

DetectSpec == HelperInit /\ [][DetectNext]_vars

\* The series whose values are labelled: every series of up to MaxFuzzyLen
\* samples over four levels.
FuzzyLevels == {Num(0), Num(1), Num(2), Num(5)}
FuzzySeries == UNION {[1..n -> FuzzyLevels] : n \in 1..MaxFuzzyLen}

\* The values labelled against the thresholds lo and hi of a series: its
\* samples, the thresholds, and the point half way between them.
Probes(series, lo, hi) ==
    Range(series) \cup {lo, hi, RDiv(RAdd(lo, hi), Num(2))}

\* fuzzify_val(col, val), with q_lo[col] = lo and q_hi[col] = hi.
Fuzzified(series, lo, hi, val) ==
    call' = [fn |-> "fuzzify_val", series |-> series, q_lo |-> lo, q_hi |-> hi,
             val |-> val, label |-> fuzzify_val(lo, hi, val)]

FuzzifyWith(series, lo, hi) ==
    \E val \in Probes(series, lo, hi) : Fuzzified(series, lo, hi, val)

fuzzify(series) ==
    /\ call.fn = "none"
    /\ FuzzifyWith(series, Quantile(series, 33), Quantile(series, 66))
    /\ UNCHANGED Handlers

FuzzifyNext == \E series \in FuzzySeries : fuzzify(series)

FuzzifySpec == HelperInit /\ [][FuzzifyNext]_vars

\* The series whose steady values are taken: a ramp and a parabola, long
\* enough to pass the check of the sample count; the window is that of a
\* peak p of the differences.
Ramp(n) == Tuple([i \in 1..n |-> Num(i)])
Parabola(n) == Tuple([i \in 1..n |-> Num(i * i)])
SteadySeries ==
    UNION {{Ramp(n), Parabola(n)} : n \in MinSamples..MaxSteadyLen}

\* pre_mean and post_mean for the window (start_idx, end_idx) of vals.
SteadyValues(vals, window) ==
    call' = [fn |-> "steady_values", vals |-> vals, start_idx |-> window[1],
             end_idx |-> window[2], pre_mean |-> PreMean(vals, window[1]),
             post_mean |-> PostMean(vals, window[2])]

steady_values(vals, p) ==
    /\ call.fn = "none"
    /\ SteadyValues(vals, StepWindow(Len(vals), p))
    /\ UNCHANGED Handlers

SteadyNext ==
    \E vals \in SteadySeries : \E p \in 1..(Len(vals) - 3) : steady_values(vals, p)

SteadySpec == HelperInit /\ [][SteadyNext]_vars

\* What curve_fit can return for K_est and tau_est: gains of either sign,
\* zero and below the floor; time constants of either sign and zero.
FittedK ==
    {Num(-5), Num(-1), Rat(-1, 2), Rat(-1, 2000000000), Num(0),
     Rat(1, 2000000000), Rat(1, 2), Num(1), Num(2), Num(5), Num(10)}
FittedTau ==
    {Num(-10), Num(-1), Num(0), Rat(1, 2), Num(1), Num(3), Num(10), Num(20),
     Num(25), Num(50), Num(100)}

\* The suggestion computed after a fit that returned K_est and tau_est.
Suggested(K_est, tau_est) ==
    call' = [fn |-> "suggestion", K_est |-> K_est, tau_est |-> tau_est,
             out |-> Suggestion(K_est, tau_est, L_est(tau_est))]

suggest(K_est, tau_est) ==
    /\ call.fn = "none"
    /\ Suggested(K_est, tau_est)
    /\ UNCHANGED Handlers

TuningNext == \E K_est \in FittedK, tau_est \in FittedTau : suggest(K_est, tau_est)

TuningSpec == HelperInit /\ [][TuningNext]_vars

\* The files whose rules are mined: one file m.csv with a time column and
\* the columns a and b, loaded by the analysis script.
MiningPath == Csv("d1", <<"m">>)
MiningHeader == << <<"time">>, <<"a">>, <<"b">> >>
MiningFile(n, a, b) ==
    [path |-> MiningPath,
     header |-> MiningHeader,
     rows |-> Tuple([i \in 1..n |-> << <<i>>, a[i], b[i] >>])]

\* Small files: every pair of columns over three levels.
MiningLevels == {Num(0), Num(1), Num(2)}
SmallFiles ==
    UNION {{MiningFile(n, a, b) : a, b \in [1..n -> MiningLevels]} :
              n \in 1..MaxMiningRows}

\* Long files: both columns carry the same values, spread evenly over their
\* range: rising, falling, shuffled, and three or ten levels in turn.
Rising(n) == Tuple([i \in 1..n |-> Num(i)])
Falling(n) == Tuple([i \in 1..n |-> Num(n + 1 - i)])
Shuffled(n) == Tuple([i \in 1..n |-> Num((11 * i) % n)])
InTurn(n, k) == Tuple([i \in 1..n |-> Num(i % k)])
UniformFiles ==
    {MiningFile(UniformRows, xs, xs) :
        xs \in {Rising(UniformRows), Falling(UniformRows),
                Shuffled(UniformRows), InTurn(UniformRows, 3),
                InTurn(UniformRows, 10)}}

\* Wide files: three rows of three columns over two levels.
WideFiles ==
    {[path |-> MiningPath,
      header |-> << <<"time">>, <<"a">>, <<"b">>, <<"c">> >>,
      rows |-> Tuple([i \in 1..3 |-> << <<i>>, a[i], b[i], c[i] >>])] :
        a, b, c \in [1..3 -> {Num(0), Num(2)}]}

MiningFiles == SmallFiles \cup UniformFiles \cup WideFiles

\* The selections of the analysis, and those of three different variables.
MiningSelections(md) ==
    LET offered == Range(VariableList(md))
    IN Selections(md) \cup
       {t \in offered \X offered \X offered : Cardinality(Range(t)) = 3}

\* The state after load_files has loaded the file f into a fresh window of
\* the analysis script.
LoadedFresh(f) ==
    /\ variant = "anylisis_data"
    /\ disk = {f}
    /\ file_list = <<f.path>>
    /\ merged_data =
          MergeInto(EmptyFrame,
                    IndexedFrame("anylisis_data", f,
                                 Tuple([k \in 1..Len(f.rows) |-> k])))
    /\ status_bar = <<Msg("loaded", f.path)>>
    /\ result_text = <<>>
    /\ figure = <<>>
    /\ sampled = EmptyFrame
    /\ request = [op |-> "load_files", files |-> <<f.path>>]
    /\ call = [fn |-> "none"]

MiningInit == \E f \in MiningFiles : LoadedFresh(f)

\* The whole span of the loaded data, and the top_k of a call: that of the
\* button, or one a caller asks for.
WholeSpan == <<0, UniformRows + MaxMiningRows>>
TopKs == Clicked \cup {1, 2}

MiningNext ==
    Blank /\ \E selected \in MiningSelections(merged_data), top_k \in TopKs :
        generate_fuzzy_rules(selected, WholeSpan, top_k)

MiningSpec == MiningInit /\ [][MiningNext]_vars

\* The files whose pairs are tested: one file g.csv with a time column and
\* the columns a, b and c, of one row, of twelve or of sixty.
GrangerRows == {1, 12, 60}
GrangerFile(n) ==
    [path |-> Csv("d1", <<"g">>),
     header |-> << <<"time">>, <<"a">>, <<"b">>, <<"c">> >>,
     rows |-> Tuple([i \in 1..n |-> << <<i>>, Num(i), Num(i % 3), Num(5) >>])]

GrangerInit == \E n \in GrangerRows : LoadedFresh(GrangerFile(n))

\* get_selected_vars: any of the offered variables, none twice.
AnySelection(md) ==
    {s \in SeqsNoRepeat(Range(VariableList(md)), Len(VariableList(md))) :
        Cardinality(Range(s)) = Len(s)}

GrangerNext ==
    Blank /\ \E selected \in AnySelection(merged_data) :
        \E answers \in AnswersFor(merged_data, selected, WholeSpan) :
            compute_granger(selected, WholeSpan, answers)

GrangerSpec == GrangerInit /\ [][GrangerNext]_vars

\* A session on one loaded file of two columns: the analyses of two or more
\* series, one after another, each on any selection of the two columns and
\* on the whole span.
SessionFiles ==
    {MiningFile(3, <<Num(0), Num(1), Num(2)>>, <<Num(2), Num(1), Num(1)>>),
     MiningFile(1, <<Num(0)>>, <<Num(2)>>)}
SessionInit == \E f \in SessionFiles : LoadedFresh(f)

SessionNext ==
    \/ \E selected \in Selections(merged_data) :
            compute_and_plot_correlation(selected, WholeSpan)
    \/ \E selected \in Selections(merged_data) :
            \E answers \in AnswersFor(merged_data, selected, WholeSpan) :
                compute_granger(selected, WholeSpan, answers)
    \/ \E selected \in Selections(merged_data), top_k \in Clicked :
            generate_fuzzy_rules(selected, WholeSpan, top_k)

SessionSpec == SessionInit /\ [][SessionNext]_vars

\* A session of all five analyses, one after another, on a loaded file of
\* two columns, one of them with a gap.
GapFiles ==
    {MiningFile(3, <<Num(0), NaN, Num(2)>>, <<Num(2), Num(1), Num(1)>>),
     MiningFile(2, <<Num(0), Num(3)>>, <<NaN, Num(1)>>)}
AnalysesInit == \E f \in GapFiles : LoadedFresh(f)

AnalysesNext ==
    \/ \E selected \in Selections(merged_data) :
            compute_statistics(selected, WholeSpan)
    \/ \E selected \in Selections(merged_data) :
            \E fits \in FitsFor(merged_data, selected, WholeSpan) :
                estimate_pid_for_selected(selected, WholeSpan, fits)
    \/ SessionNext

AnalysesSpec == AnalysesInit /\ [][AnalysesNext]_vars

\* An export of the current table by the large-data script, after
\* load_files has loaded one of these selections into a fresh window.
RoundTripBatches ==
    {<<FileA.path>>, <<FileB.path>>, <<FileR.path>>, <<FileS.path>>,
     <<FileA.path, FileB.path>>, <<FileB.path, FileR.path>>}
LoadedBy(r, files) ==
    /\ file_list = r.file_list
    /\ merged_data = r.merged_data
    /\ status_bar = r.status_bar
    /\ request = [op |-> "load_files", files |-> files]
RoundTripInit ==
    \E files \in RoundTripBatches :
        /\ variant = "show_data_large_data"
        /\ disk = Files
        /\ LoadedBy(LoadResult("show_data_large_data", <<>>, EmptyFrame, files),
                    files)
        /\ result_text = <<>>
        /\ figure = <<>>
        /\ sampled = EmptyFrame
        /\ call = [fn |-> "none"]

\* A session that has loaded files, clears, and loads again: what it loaded
\* first is a file with rows out of order, one with a time twice, both, or
\* a file that fails to load.
BeforeBatches ==
    {<<FileQ.path>>, <<FileR.path>>, <<FileQ.path, FileR.path>>,
     <<FileBad.path>>}
ReloadInit ==
    \E files \in BeforeBatches :
        /\ variant \in Variants
        /\ disk = Files
        /\ LoadedBy(LoadResult(variant, <<>>, EmptyFrame, files), files)
        /\ result_text = <<>>
        /\ figure = <<>>
        /\ sampled = EmptyFrame
        /\ call = [fn |-> "none"]

ReloadNext ==
    \/ clear_files
    \/ request.op = "clear_files" /\ \E files \in Batches(disk) : load_files(files)

ReloadSpec == ReloadInit /\ [][ReloadNext]_vars

RoundTripNext ==
    Blank /\ \E selected_vars \in Checked(merged_data), w \in Windows,
                 freq \in Freqs, agg \in Aggs, raises \in BOOLEAN,
                 outcome \in Outcomes :
        export_current_data(selected_vars, w, freq, agg, raises, outcome)

RoundTripSpec == RoundTripInit /\ [][RoundTripNext]_vars

-----------------------------------------------------------------------------
(* The claims about load_files. A source is a listed file; it is sound     *)
(* when it has rows and every one of its time cells can be read.           *)

Source(i) == ReadFile(file_list[i])
Sound(f) == Len(f.rows) > 0 /\ \A k \in 1..Len(f.rows) : f.rows[k][1] # <<>>
Timestamps(f) == {f.rows[k][1][1] : k \in {k \in 1..Len(f.rows) : f.rows[k][1] # <<>>}}

\* The instant under which the merged data hold an instant of a source.
Held(t) == IF variant = "show_data_large_data" THEN ClipInstant(t) ELSE t

\* The name under which column j >= 2 of the header of f is merged.
NameOf(f, j) == RenamedColumn(FilePrefix(variant, f.path), f.header[1], f.header[j])

\* C1: after load_files has merged two sources whose timestamp sets are
\* disjoint (each with one time column and zero or more data columns), the
\* time index of merged_data is the union of the timestamps of both (as
\* the script holds them: the large-data script clips an instant into its
\* range of dates).
C1_IndexIsUnionOfTimestamps ==
    (/\ Len(file_list) = 2
     /\ Sound(Source(1)) /\ Sound(Source(2))
     /\ Timestamps(Source(1)) \cap Timestamps(Source(2)) = {})
    => Range(merged_data.index) =
          {Held(t) : t \in Timestamps(Source(1)) \cup Timestamps(Source(2))}

\* Columns a and b of the sources i < j collide: both are merged under the
\* same name.
Collide(i, a, j, b) ==
    /\ i < j
    /\ Sound(Source(i)) /\ Sound(Source(j))
    /\ NameOf(Source(i), a) = NameOf(Source(j), b)

Collisions ==
    {c \in UNION {UNION {{<<i, a, j, b>> : a \in 2..Len(Source(i).header),
                                          b \in 2..Len(Source(j).header)} :
                            j \in 1..Len(file_list)} : i \in 1..Len(file_list)} :
        Collide(c[1], c[2], c[3], c[4])}

\* C2: when a source loaded later yields, after prefixing, a column name
\* that merged_data already holds, the later column is discarded (the name
\* labels one column and no _dup column stays), and the column under that
\* name holds the value of the source loaded first at every timestamp that
\* source had.
C2_FirstSourceWins ==
    \A c \in Collisions :
        LET first == Source(c[1])
            name == NameOf(first, c[2])
        IN /\ Cardinality({p \in 1..Len(merged_data.columns) :
                               merged_data.columns[p] = name}) = 1
           /\ name \o DupSuffix \notin Range(merged_data.columns)
           /\ \A k \in 1..Len(first.rows) :
                 \E r \in 1..Len(merged_data.index) :
                    /\ merged_data.index[r] = Held(first.rows[k][1][1])
                    /\ merged_data.values[r][ColPos(merged_data, name)]
                           = first.rows[k][c[2]]

\* A collision in which the later source holds another value than the first
\* at an instant both have.
C2_Witness ==
    /\ request.op = "load_files"
    /\ \E c \in Collisions :
         \E k \in 1..Len(Source(c[1]).rows), l \in 1..Len(Source(c[3]).rows) :
            /\ Source(c[1]).rows[k][1] = Source(c[3]).rows[l][1]
            /\ Source(c[1]).rows[k][c[2]] # Source(c[3]).rows[l][c[4]]
            /\ Source(c[3]).rows[l][c[4]] # NaN

\* The whole time column of f cannot be parsed.
Unparseable(f) ==
    /\ Len(f.rows) > 0
    /\ \A k \in 1..Len(f.rows) : f.rows[k][1] = <<>>

\* C5: when the whole time column of a file cannot be parsed, load_files
\* reports an error for that file, skips it, leaves merged_data as it was
\* before that file, and loads the remaining files: every step of
\* load_files shows a parse error for each such new file and leaves the
\* merged_data that the same call leaves without those files.
C5_UnparseableFileIsSkipped ==
    [][request'.op = "load_files" =>
          /\ \A k \in 1..Len(request'.files) :
                (/\ request'.files[k] \notin Range(file_list)
                 /\ Unparseable(ReadFile(request'.files[k])))
                => \E n \in 1..Len(status_bar') :
                      status_bar'[n].msg = "time_parse_error"
          /\ merged_data' =
                LoadResult(variant, file_list, merged_data,
                           SelectSeq(request'.files,
                                     LAMBDA path : ~Unparseable(ReadFile(path)))).merged_data
      ]_vars

\* C6: after any load_files call merged_data holds no column whose name is
\* blank, whitespace only or an Unnamed: placeholder.
C6_NoPlaceholderColumn ==
    \A j \in 1..Len(merged_data.columns) : ~IsPlaceholder(merged_data.columns[j])

\* C7: every column of merged_data is named by the prefix of a listed file
\* followed by a header of that file, and no two columns of two different
\* listed files receive the same name.
C7_ColumnsPrefixedAndUnique ==
    /\ \A j \in 1..Len(merged_data.columns) :
          \E i \in 1..Len(file_list) :
             \E a \in 2..Len(Source(i).header) :
                merged_data.columns[j] =
                   FilePrefix(variant, Source(i).path) \o Source(i).header[a]
    /\ Collisions = {}

\* The analyses of anylisis_data.py.
Analyses ==
    {"compute_statistics", "compute_and_plot_correlation", "compute_granger",
     "estimate_pid_for_selected", "generate_fuzzy_rules"}

\* C8: an analysis run on loaded data with two variables selected and a
\* time window that holds no row of merged_data reports that there is not
\* enough data and produces no result: the result area and the figure stay
\* blank.
C8_EmptyWindowIsReported ==
    (/\ request.op \in Analyses
     /\ ~IsEmpty(merged_data)
     /\ Len(request.selected) = 2
     /\ TimeFilter(merged_data, request.window[1], request.window[2]).index = <<>>)
    => /\ status_bar = <<Msg("not_enough_data", <<>>)>>
       /\ result_text = <<>>
       /\ figure = <<>>

-----------------------------------------------------------------------------
(* The batch analyses. *)

PidDone ==
    /\ request.op = "estimate_pid_for_selected"
    /\ status_bar = <<Msg("pid_done", <<>>)>>

GrangerDone ==
    /\ request.op = "compute_granger"
    /\ status_bar = <<Msg("granger_done", <<>>)>>

\* The kinds of the lines of result_text written about a column or a pair,
\* in the order written.
KindsAbout(about) ==
    Tuple([k \in 1..Len(SelectSeq(result_text, LAMBDA l : l.about = about)) |->
              SelectSeq(result_text, LAMBDA l : l.about = about)[k].kind])

\* The line kinds in which the processing of a series ends.
TerminalKinds ==
    {"too_few_samples", "no_step_found", "step_window_too_short",
     "fit_failed", "fit_result"}

Terminals(kinds) == SelectSeq(kinds, LAMBDA kind : kind \in TerminalKinds)

\* C3: in a batch analysis every item has a report entry of its own,
\* whatever happens to the others. After estimate_pid_for_selected every
\* selected series has its heading and one terminal line, which is the
\* failure line exactly when its own fit raised and the result line
\* exactly when its own fit converged; after compute_granger every ordered
\* pair has one line, which is the error line exactly when its own test
\* raised.
C3_BatchItemsAreIndependent ==
    /\ PidDone =>
          \A k \in 1..Len(request.selected) :
             /\ KindsAbout(request.selected[k]) # <<>>
             /\ KindsAbout(request.selected[k])[1] = "pid_variable"
             /\ Len(Terminals(KindsAbout(request.selected[k]))) = 1
             /\ request.fits[k] = "raises"
                   <=> Terminals(KindsAbout(request.selected[k])) = <<"fit_failed">>
             /\ request.fits[k] = "converges"
                   <=> Terminals(KindsAbout(request.selected[k])) = <<"fit_result">>
    /\ GrangerDone =>
          /\ Len(result_text) = Len(request.answers) + 1
          /\ \A k \in 1..Len(request.answers) :
                LET pr == OrderedPairs(Len(request.selected))[k]
                    pair == <<request.selected[pr[1]], request.selected[pr[2]]>>
                IN /\ Len(KindsAbout(pair)) = 1
                   /\ request.answers[k] = "error"
                         <=> KindsAbout(pair) = <<"granger_error">>

\* A series whose fit raises, followed in the same batch by a series whose
\* fit converges.
C3_Witness ==
    /\ PidDone
    /\ \E k, l \in 1..Len(request.selected) :
          k < l /\ request.fits[k] = "raises" /\ request.fits[l] = "converges"

\* The lines a series can have, by the state its processing ends in.
TooShortLines == <<"pid_variable", "too_few_samples">>
NoStepFoundLines == <<"pid_variable", "no_step_found">>
FitFailedLines ==
    <<"pid_variable", "step_window", "step_time", "steady_values", "fit_failed">>
FitSucceededLines ==
    <<"pid_variable", "step_window", "step_time", "steady_values", "fit_result",
      "pid_suggestion">>

\* C4, as stated: every series processed by estimate_pid_for_selected ends
\* in one of the four terminal states and exactly one report line is
\* written for it, the line of that state.
C4_OneReportLinePerSeries ==
    PidDone =>
       \A k \in 1..Len(request.selected) :
          /\ Len(KindsAbout(request.selected[k])) = 1
          /\ KindsAbout(request.selected[k])[1] \in
                {"too_few_samples", "no_step_found", "fit_failed", "fit_result"}

\* C4, amended: every series processed by estimate_pid_for_selected ends in
\* exactly one of the four terminal states too-short, no-step-found,
\* fit-failed, fit-succeeded. A heading line is written for it first, and
\* exactly one line names its terminal state, a different line for each
\* state; in fit-failed and fit-succeeded three lines about the step window
\* come before that line, and in fit-succeeded the tuning suggestion comes
\* after it.
C4_OneTerminalLinePerSeries ==
    PidDone =>
       \A k \in 1..Len(request.selected) :
          /\ KindsAbout(request.selected[k]) \in
                {TooShortLines, NoStepFoundLines, FitFailedLines, FitSucceededLines}
          /\ Len(Terminals(KindsAbout(request.selected[k]))) = 1

\* A batch with a series in fit-succeeded and a series in another terminal
\* state.
C4_Witness ==
    /\ PidDone
    /\ \E k, l \in 1..Len(request.selected) :
          /\ KindsAbout(request.selected[k]) = FitSucceededLines
          /\ KindsAbout(request.selected[l]) \in {TooShortLines, NoStepFoundLines}

-----------------------------------------------------------------------------
(* Resampling. *)

\* The time-filtered input of the last export.
Filtered == TimeFilter(merged_data, request.window[1], request.window[2])

\* The last handler resampled a non-empty filtered frame, and sampled is
\* what the resampling returned.
Resampled ==
    /\ request.op = "export_merged_data"
    /\ request.apply_sampling
    /\ request.freq # "raw"
    /\ ~request.raises
    /\ ~IsEmpty(merged_data)
    /\ ~IsEmpty(Filtered)

\* ceil(a / b) for a >= 0 and b > 0.
Ceil(a, b) == (a + b - 1) \div b

\* max input time - min input time
Span(index) == Max(Range(index)) - Min(Range(index))

\* C9, as stated: every timestamp of the output of resampling lies within
\* [min, max] of the timestamps of the time-filtered input.
C9_WithinInputSpan ==
    Resampled =>
       \A i \in 1..Len(sampled.index) :
          /\ Min(Range(Filtered.index)) <= sampled.index[i]
          /\ sampled.index[i] <= Max(Range(Filtered.index))

\* C9, amended: every timestamp of the output of resampling is later than
\* min - period and not later than max, min and max being the earliest and
\* the latest timestamp of the time-filtered input.
C9_WithinOnePeriodOfSpan ==
    Resampled =>
       \A i \in 1..Len(sampled.index) :
          /\ Min(Range(Filtered.index)) - Period(request.freq) < sampled.index[i]
          /\ sampled.index[i] <= Max(Range(Filtered.index))

\* An output timestamp earlier than every input timestamp.
C9_Witness ==
    /\ Resampled
    /\ \E i \in 1..Len(sampled.index) :
          sampled.index[i] < Min(Range(Filtered.index))

\* C10, as stated: the number of rows returned by resampling is at most
\* ceil((max input time - min input time) / period).
C10_RowsAtMostCeil ==
    Resampled =>
       Len(sampled.index) <= Ceil(Span(Filtered.index), Period(request.freq))

\* C10, amended: the number of rows returned by resampling is at most
\* ceil((max input time - min input time) / period) + 1.
C10_RowsAtMostCeilPlusOne ==
    Resampled =>
       Len(sampled.index) <= Ceil(Span(Filtered.index), Period(request.freq)) + 1

\* A resampling that returns one row more than ceil(span / period), from an
\* input of more than one instant.
C10_Witness ==
    /\ Resampled
    /\ Span(Filtered.index) > 0
    /\ Len(sampled.index) = Ceil(Span(Filtered.index), Period(request.freq)) + 1

\* The last handler called _apply_time_filter_and_sampling with a period on
\* a non-empty filtered frame, and the resampling raised.
ResamplingRaised ==
    /\ request.op = "export_merged_data"
    /\ request.apply_sampling
    /\ request.freq # "raw"
    /\ request.raises
    /\ ~IsEmpty(merged_data)
    /\ ~IsEmpty(Filtered)

\* The buckets of the rows of df that hold some value.
ValuedBuckets(df, period) ==
    {Bucket(df.index[i], period) :
        i \in {i \in 1..Len(df.index) :
                  \E j \in 1..Len(df.columns) : df.values[i][j] # NaN}}

\* C11: when the resampling raises, _apply_time_filter_and_sampling shows
\* the sampling error and returns the time-filtered frame as it was; when
\* it succeeds, it shows no error and returns one row for every bucket in
\* which some input row holds a value, in time order, each row holding a
\* value: the all-missing rows are removed.
C11_ResampleFailsGracefully ==
    /\ ResamplingRaised =>
          /\ sampled = Filtered
          /\ Msg("sampling_failed", <<>>) \in Range(status_bar)
    /\ Resampled =>
          /\ Msg("sampling_failed", <<>>) \notin Range(status_bar)
          /\ sampled.columns = Filtered.columns
          /\ sampled.index = SortAsc(ValuedBuckets(Filtered, Period(request.freq)))
          /\ \A i \in 1..Len(sampled.index) :
                \E j \in 1..Len(sampled.columns) : sampled.values[i][j] # NaN

\* A successful resampling in which a bucket between the first and the last
\* holds no value, so that its row was removed.
C11_Witness ==
    /\ Resampled
    /\ Len(sampled.index) > 1
    /\ Len(sampled.index) <
          (sampled.index[Len(sampled.index)] - sampled.index[1])
             \div Period(request.freq) + 1

-----------------------------------------------------------------------------
(* _detect_steps on its own. *)

\* C12: for a perfectly flat series (all values equal) of any length,
\* _detect_steps returns an empty list of step windows.
C12_FlatSeriesHasNoStep ==
    (/\ call.fn = "_detect_steps"
     /\ \A i, j \in 1..Len(call.series) : call.series[i] = call.series[j])
    => call.steps = <<>>

\* A flat series long enough for the peak search to run.
C12_Witness ==
    /\ call.fn = "_detect_steps"
    /\ Len(call.series) >= DetectMinLen
    /\ \A i, j \in 1..Len(call.series) : call.series[i] = call.series[j]

\* C13: for a series of 40 samples or more that is flat except for one
\* step over a short transition, a transition of a single sample included,
\* _detect_steps returns exactly one step window, and the window holds the
\* transition no further than the length of the transition from its
\* centre.
C13_OneWindowAroundTheStep ==
    (call.fn = "_detect_steps" /\ call.shape.kind = "step")
    => /\ Len(call.steps) = 1
       /\ call.steps[1][1] <= call.shape.at
       /\ call.shape.at + call.shape.over <= call.steps[1][2]
       /\ Abs(call.steps[1][1] + call.steps[1][2] - 2 * call.shape.at
               - call.shape.over) <= 2 * call.shape.over

\* The windows are those of the peaks, in the order of the peaks, each
\* clamped to the series of n samples.
WindowsOfPeaks(n, peaks, steps) ==
    /\ Len(steps) = Len(peaks)
    /\ \A k \in 1..Len(peaks) :
          /\ k > 1 => peaks[k - 1] < peaks[k]
          /\ steps[k][1] = Max({0, peaks[k] - 8})
          /\ steps[k][2] = Min({n - 1, peaks[k] + 8})
          /\ 0 <= steps[k][1]
          /\ steps[k][1] <= steps[k][2]
          /\ steps[k][2] <= n - 1
          /\ steps[k][2] - steps[k][1] + 1 <= 17

\* C24: _detect_steps returns one window per accepted peak p, in increasing
\* index order, each equal to (max(0, p - 8), min(len - 1, p + 8)); so
\* every window has 0 <= start <= end <= len - 1 and spans at most 17
\* samples.
C24_WindowsAreClampedAroundPeaks ==
    call.fn = "_detect_steps" =>
        WindowsOfPeaks(Len(call.series), call.peaks, call.steps)

\* Two peaks in a series so short that both ends of a window are clamped.
C24_Witness ==
    /\ call.fn = "_detect_steps"
    /\ Len(call.peaks) >= 2
    /\ call.steps[1] = <<0, Len(call.series) - 1>>

\* The mean of the samples of vals at the positions from..to (from 0).
MeanOver(vals, from, to) ==
    Mean(Tuple([i \in 1..(to - from + 1) |-> vals[from + i]]))

\* C25: for a step window (start, end) of a series, the pre-step steady
\* value is the mean of at most 10 samples ending at index start, and the
\* post-step steady value is the mean of at most 10 samples starting at
\* index end, both ranges clamped to the series.
C25_SteadyValuesOverTenSamples ==
    call.fn = "steady_values" =>
        /\ call.pre_mean = MeanOver(call.vals, Max({0, call.start_idx - 9}),
                                    call.start_idx)
        /\ call.post_mean = MeanOver(call.vals, call.end_idx,
                                     Min({Len(call.vals) - 1, call.end_idx + 9}))

\* C27: for a series of 30 samples or more, the first window that
\* _detect_steps returns spans 6 samples or more, so that
\* estimate_pid_for_selected never finds the window too short to fit.
C27_FirstWindowLongEnough ==
    (/\ call.fn = "_detect_steps"
     /\ Len(call.series) >= 30
     /\ call.steps # <<>>) =>
        /\ call.steps[1][2] - call.steps[1][1] + 1 >= 6
        /\ FitCalledOn(call.series, call.steps)

\* A series of 30 samples or more whose first window is cut at the start
\* of the series.
C27_Witness ==
    /\ call.fn = "_detect_steps"
    /\ Len(call.series) >= 30
    /\ call.steps # <<>>
    /\ call.steps[1][1] = 0
    /\ call.steps[1][2] - call.steps[1][1] + 1 < 17

-----------------------------------------------------------------------------
(* generate_fuzzy_rules. *)

\* C14, as stated: a value equal to the 33rd-percentile threshold of its
\* series is low, a value equal to the 66th-percentile threshold is high,
\* and a value strictly between the two is medium.
C14_BoundariesAreLowAndHigh ==
    call.fn = "fuzzify_val" =>
       /\ call.val = call.q_lo => call.label = "low"
       /\ call.val = call.q_hi => call.label = "high"
       /\ (RLt(call.q_lo, call.val) /\ RLt(call.val, call.q_hi))
             => call.label = "medium"

\* C14, amended: a value equal to the 33rd-percentile threshold is low; a
\* value equal to the 66th-percentile threshold is high when that threshold
\* lies above the 33rd-percentile threshold (when the two thresholds
\* coincide, a value equal to them is low); a value strictly between the
\* two thresholds is medium.
C14_BoundariesLowBeforeHigh ==
    call.fn = "fuzzify_val" =>
       /\ call.val = call.q_lo => call.label = "low"
       /\ (call.val = call.q_hi /\ RLt(call.q_lo, call.q_hi))
             => call.label = "high"
       /\ (RLt(call.q_lo, call.val) /\ RLt(call.val, call.q_hi))
             => call.label = "medium"

\* A value on the upper threshold of a series whose thresholds differ.
C14_Witness ==
    /\ call.fn = "fuzzify_val"
    /\ call.val = call.q_hi
    /\ RLt(call.q_lo, call.q_hi)

\* generate_fuzzy_rules has mined rules: the rules of its report, and the
\* labelled rows it counted them from.
Mined ==
    /\ request.op = "generate_fuzzy_rules"
    /\ Msg("fuzzy_done", <<>>) \in Range(status_bar)
MinedRules ==
    LET lines == SelectSeq(result_text, LAMBDA l : l.kind = "fuzzy_rule")
    IN Tuple([r \in 1..Len(lines) |-> lines[r].data])
MinedFrom(df_clean, selected) ==
    FuzzyKeys(df_clean, Len(selected), Quantiles(df_clean, selected, 33),
              Quantiles(df_clean, selected, 66))
MinedKeys ==
    MinedFrom(Clean(WindowOf(merged_data, request.selected, request.window)),
              request.selected)
KeyOf(rule) == <<rule.antecedent, rule.consequent>>
Support(keys, rule) == Cardinality({i \in 1..Len(keys) : keys[i] = KeyOf(rule)})
FirstSeen(keys, rule) == Min({i \in 1..Len(keys) : keys[i] = KeyOf(rule)})

\* The rules are the first top_k (or all, when there are fewer) of the
\* rules of the rows, each once with its support, by falling support, rules
\* of equal support in the order in which the rows first brought them.
RankedBySupport(rules, keys, top_k) ==
    /\ Len(rules) <= top_k
    /\ Len(rules) < top_k => Len(rules) = Cardinality(Range(keys))
    /\ \A r \in 1..Len(rules) :
          /\ KeyOf(rules[r]) \in Range(keys)
          /\ rules[r].count = Support(keys, rules[r])
    /\ \A r, s \in 1..Len(rules) :
          r < s => \/ rules[r].count > rules[s].count
                   \/ /\ rules[r].count = rules[s].count
                      /\ FirstSeen(keys, rules[r]) < FirstSeen(keys, rules[s])
    /\ \A i \in 1..Len(keys) :
          (\A r \in 1..Len(rules) : KeyOf(rules[r]) # keys[i])
             => /\ Len(rules) = top_k
                /\ top_k > 0 =>
                      Cardinality({j \in 1..Len(keys) : keys[j] = keys[i]})
                         <= rules[top_k].count

\* C15: the rules of the report come in descending order of support, rules
\* of equal support in the order in which they were first encountered, and
\* at most top_k of them (20 unless the caller asks otherwise).
C15_RulesRankedBySupport ==
    Mined => RankedBySupport(MinedRules, MinedKeys, request.top_k)

\* A report cut to top_k rules, two of which have the same support.
C15_Witness ==
    /\ Mined
    /\ request.top_k < Cardinality(Range(MinedKeys))
    /\ \E r, s \in 1..Len(MinedRules) :
          r < s /\ MinedRules[r].count = MinedRules[s].count

\* The supports of the rules, added up.
RECURSIVE SumOfCounts(_)
SumOfCounts(rules) ==
    IF rules = <<>> THEN 0 ELSE Head(rules).count + SumOfCounts(Tail(rules))

\* Every rule holds one label per input and a label of the output, and is
\* the key of a cleaned row: the labels of that row's inputs, in the order
\* of the selection, and the label of the last selected series.
RulesOfLabels(rules, rows, k, q_lo, q_hi, cols) ==
    \A r \in 1..Len(rules) :
        /\ Len(rules[r].antecedent) = k
        /\ \E i \in 1..rows :
              /\ \A j \in 1..k :
                    rules[r].antecedent[j] =
                        fuzzify_val(q_lo[j], q_hi[j], cols[j][i])
              /\ rules[r].consequent =
                    fuzzify_val(q_lo[k + 1], q_hi[k + 1], cols[k + 1][i])
RulesOfRows(rules, df_clean, selected) ==
    RulesOfLabels(rules, Len(df_clean.index), Len(selected) - 1,
                  Quantiles(df_clean, selected, 33),
                  Quantiles(df_clean, selected, 66),
                  Tuple([j \in 1..Len(selected) |->
                            Column(df_clean, selected[j])]))
RowsOfRules(rules, keys, top_k) ==
    /\ SumOfCounts(rules) <= Len(keys)
    /\ Len(rules) < top_k => SumOfCounts(rules) = Len(keys)
    /\ Cardinality({KeyOf(rules[r]) : r \in 1..Len(rules)}) = Len(rules)

\* C28: in generate_fuzzy_rules every cleaned row counts for exactly one
\* rule, whose antecedent holds one label per input in selection order and
\* whose consequent is the label of the last selected series: the supports
\* of all the rules mined add up to the number of cleaned rows (a report
\* cut to top_k rules adds up to no more), and with k inputs there are at
\* most 3^(k+1) different rules.
C28_SupportsAddUpToRows ==
    Mined =>
        LET df_clean == Clean(WindowOf(merged_data, request.selected,
                                       request.window))
        IN /\ RulesOfRows(MinedRules, df_clean, request.selected)
           /\ RowsOfRules(MinedRules, df_clean.index, request.top_k)
           /\ Cardinality(Range(MinedKeys)) <= 3 ^ Len(request.selected)

\* Two inputs and an output, and a report of all the rules mined, one of
\* them the rule of two rows.
C28_Witness ==
    /\ Mined
    /\ Len(request.selected) = 3
    /\ Len(MinedRules) < request.top_k
    /\ Len(MinedRules) = 2
    /\ MinedRules[1].count = 2
    /\ MinedRules[1].antecedent[1] # MinedRules[1].antecedent[2]

\* C16: when fewer than two valid rows remain after cleaning (exactly one
\* valid row included), generate_fuzzy_rules reports insufficient data and
\* puts no rule in its report.
C16_FewRowsAreInsufficient ==
    (/\ request.op = "generate_fuzzy_rules"
     /\ ~IsEmpty(merged_data)
     /\ Len(request.selected) >= 2
     /\ Len(Clean(WindowOf(merged_data, request.selected,
                           request.window)).index) < 2)
       => /\ Msg("not_enough_data", <<>>) \in Range(status_bar)
          /\ \A i \in 1..Len(result_text) : result_text[i].kind # "fuzzy_rule"

\* The values xs are spread uniformly over their range: the distinct values
\* are evenly spaced, and each occurs as often as any other, give or take
\* one.
Occurrences(xs, x) == Cardinality({i \in 1..Len(xs) : xs[i] = x})
Least(S) == CHOOSE x \in S : \A y \in S : RLe(x, y)
SpacedBy(S, least, step) ==
    \A x \in S : x = least \/ RSub(x, step) \in S
EvenlySpaced(S, least) ==
    S = {least} \/ SpacedBy(S, least, RSub(Least(S \ {least}), least))
EquallyOften(counts) == \A c, d \in counts : c <= d + 1
Uniform(xs) ==
    /\ EquallyOften({Occurrences(xs, x) : x \in Range(xs)})
    /\ EvenlySpaced(Range(xs), Least(Range(xs)))

\* Rules were mined from two columns of the same, uniformly spread values
\* on at least UniformRows rows, and the report holds a rule.
SameUniformColumns(df_clean) ==
    /\ Len(df_clean.columns) = 2
    /\ Len(df_clean.index) >= UniformRows
    /\ \A i \in 1..Len(df_clean.index) : df_clean.values[i][1] = df_clean.values[i][2]
    /\ Uniform(Tuple([i \in 1..Len(df_clean.index) |-> df_clean.values[i][1]]))
MinedFromSameUniform ==
    /\ Mined
    /\ request.top_k >= 1
    /\ SameUniformColumns(Clean(WindowOf(merged_data, request.selected,
                                        request.window)))

\* The first rule is low -> low or high -> high, above every rule of keys
\* whose input label and output label differ.
SameLabelOnTop(rules, keys) ==
    /\ rules # <<>>
    /\ KeyOf(rules[1]) \in {<< <<"low">>, "low" >>, << <<"high">>, "high" >>}
    /\ \A i \in 1..Len(keys) :
          keys[i][1] # <<keys[i][2]>>
             => rules[1].count > Cardinality({j \in 1..Len(keys) : keys[j] = keys[i]})

\* C17: for two selected series of the same values, spread uniformly over a
\* range on at least 300 rows, the rule of the highest support (the first
\* rule of a report that holds rules) is low -> low or high -> high, and
\* its support is higher than that of every cross-label rule.
C17_SameLabelRuleOnTop ==
    MinedFromSameUniform => SameLabelOnTop(MinedRules, MinedKeys)

\* The three same-label rules mined from such a pair, high -> high first.
C17_Witness ==
    /\ MinedFromSameUniform
    /\ Len(MinedRules) = 3
    /\ KeyOf(MinedRules[1]) = << <<"high">>, "high" >>

-----------------------------------------------------------------------------
(* compute_granger and the analyses of two or more series. *)

\* The place of the pair (i, j), i # j, among the pairs of n series, when
\* the pairs are tested source by source and, for a source, target by
\* target.
PlaceOf(n, i, j) == (i - 1) * (n - 1) + (IF j < i THEN j ELSE j - 1)
LinesAbout(lines, about) == {k \in 1..Len(lines) : lines[k].about = about}

\* One line per ordered pair of different series, none for a series and
\* itself; the line of a pair is the error line exactly when its own test
\* raised.
OneLinePerPair(selected, lines, answers) ==
    /\ Len(lines) = Len(selected) * (Len(selected) - 1)
    /\ \A i, j \in 1..Len(selected) :
          IF i = j
          THEN LinesAbout(lines, <<selected[i], selected[i]>>) = {}
          ELSE /\ LinesAbout(lines, <<selected[i], selected[j]>>)
                     = {PlaceOf(Len(selected), i, j)}
               /\ lines[PlaceOf(Len(selected), i, j)].kind
                     = IF answers[PlaceOf(Len(selected), i, j)] = "error"
                       THEN "granger_error" ELSE "granger_pair"

\* C18: compute_granger writes exactly one line for every ordered pair of
\* different selected series (n * (n - 1) lines for n series, none for a
\* series paired with itself); a pair whose test raises has its error line,
\* and every other pair is still tested and has its result line.
C18_OneLinePerOrderedPair ==
    GrangerDone => OneLinePerPair(request.selected, Tail(result_text),
                                  request.answers)

\* Three series, the test of the first pair raising and that of the last
\* pair answering.
C18_Witness ==
    /\ GrangerDone
    /\ Len(request.selected) = 3
    /\ request.answers[1] = "error"
    /\ request.answers[6] # "error"
    /\ result_text[7].kind = "granger_pair"

\* The line of a pair whose test answered names the lag of the smallest of
\* the p-values of the lags 1..maxlag, maxlag being n / 5 rounded down,
\* raised to 1 and cut to 10.
LagOfSmallest(line, pvals) ==
    /\ line.data.best_lag \in 1..Len(pvals)
    /\ line.data.pvalue = pvals[line.data.best_lag]
    /\ \A lag \in 1..Len(pvals) : line.data.pvalue <= pvals[lag]
LagsUpTo(n, maxlag) ==
    /\ maxlag \in 1..10
    /\ maxlag = Min({10, Max({1, n \div 5})})
TestedLags(n, lines, answers) ==
    \A k \in 1..Len(lines) :
        lines[k].kind = "granger_pair" =>
            /\ LagsUpTo(n, lines[k].data.maxlag)
            /\ LagOfSmallest(lines[k],
                             PValues(answers[k], lines[k].data.maxlag))

\* C26: for a cleaned dataset of n >= 1 rows the greatest lag that
\* compute_granger tests is min(10, max(1, floor(n / 5))), an integer
\* between 1 and 10, and the lag reported for a pair is one of 1..maxlag
\* whose p-value is the smallest.
C26_LagsClampedAndBestReported ==
    GrangerDone =>
        TestedLags(Len(Clean(WindowOf(merged_data, request.selected,
                                      request.window)).index),
                   Tail(result_text), request.answers)

\* Sixty rows, so that the cap of ten lags applies, and a pair whose
\* p-values fall with the lag.
C26_Witness ==
    /\ GrangerDone
    /\ Len(merged_data.index) = 60
    /\ request.answers[1] = "falling"
    /\ result_text[2].data.best_lag = 10

\* The analyses that need two or more series.
PairAnalyses ==
    {"compute_and_plot_correlation", "compute_granger", "generate_fuzzy_rules"}

\* C19: with data loaded and fewer than two series selected, the
\* correlation, the predictability test and the fuzzy mining each report
\* that two are needed and do not run: the result text, the figure and
\* merged_data stay as they were before the call.
C19_TooFewSeriesChangesNothing ==
    [][(/\ request'.op \in PairAnalyses
        /\ Len(request'.selected) < 2
        /\ ~IsEmpty(merged_data))
          => /\ status_bar' = <<Msg("select_two_variables", <<>>)>>
             /\ result_text' = result_text
             /\ figure' = figure
             /\ merged_data' = merged_data]_vars

\* A call with one series selected, after analyses that have left a report
\* and a figure.
C19_Witness ==
    /\ request.op \in PairAnalyses
    /\ Len(request.selected) = 1
    /\ status_bar = <<Msg("select_two_variables", <<>>)>>
    /\ result_text # <<>>
    /\ figure # <<>>

-----------------------------------------------------------------------------
(* The tuning suggestion. *)

\* a <= Eps and Eps <= a for a >= 0, without a product that leaves the
\* range of the integers.
UpToEps(a) == a[1] <= a[2] \div Eps[2]
FromEps(a) == a[1] > 0 /\ (a[2] + a[1] - 1) \div a[1] <= Eps[2]

\* x / y for y > 0, the common factor of the denominators taken out first.
Ratio(x, y) ==
    Rat(x[1] * (y[2] \div Gcd(x[2], y[2])), (x[2] \div Gcd(x[2], y[2])) * y[1])

\* The quotient kp.over / (kp.by * (kp.plus + Eps)) against a number c > 0,
\* for kp.by > 0: the quotient is at most c when over - c * by * plus is at
\* most c * by * Eps, and at least c when it is at least that.
Excess(kp, c) == RSub(kp.over, RMul(c, RMul(kp.by, kp.plus)))
AtMost(kp, c) ==
    \/ RLe(Excess(kp, c), Num(0))
    \/ UpToEps(Ratio(Excess(kp, c), RMul(c, kp.by)))
AtLeast(kp, c) ==
    /\ RLt(Num(0), Excess(kp, c))
    /\ FromEps(Ratio(Excess(kp, c), RMul(c, kp.by)))
Tolerance == Rat(1, 1000000)
Near(kp, c) ==
    /\ AtLeast(kp, RSub(c, Tolerance))
    /\ AtMost(kp, RAdd(c, Tolerance))

\* The suggestion follows the rules of the claim from K and tau.
FollowsTheRules(K, tau, out) ==
    /\ out.L = (IF RLt(RMul(Rat(1, 10), tau), Num(0)) THEN Num(0)
                ELSE RMul(Rat(1, 10), tau))
    /\ out.Ti = RAdd(out.L, out.L)
    /\ out.Td = RDiv(out.L, Num(2))
    /\ out.Kp.over = RDiv(RMul(Num(12), tau), Num(10))
    /\ out.Kp.by = (IF FromEps(RAbs(K)) THEN RAbs(K) ELSE Eps)
    /\ out.Kp.plus = out.L
    /\ (K = Num(5) /\ tau = Num(10)) =>
          /\ out.L = Num(1)
          /\ out.Ti = Num(2)
          /\ out.Td = Rat(1, 2)
          /\ Near(out.Kp, Rat(24, 10))

\* C20: the suggestion is a function of the fitted K and tau alone:
\* L = max(0, 0.1 * tau), Ti = 2 * L, Td = 0.5 * L and
\* Kp = 1.2 * tau / (|K| * (L + eps)), where a |K| below the floor eps is
\* replaced by eps; for K = 5 and tau = 10 it gives L = 1, Ti = 2,
\* Td = 0.5, and Kp = 2.4 within the tolerance.
C20_SuggestionFollowsTheRules ==
    call.fn = "suggestion" => FollowsTheRules(call.K_est, call.tau_est, call.out)

\* The suggestion for K = 5 and tau = 10.
C20_Witness ==
    /\ call.fn = "suggestion"
    /\ call.K_est = Num(5)
    /\ call.tau_est = Num(10)
    /\ call.out.L = Num(1)

-----------------------------------------------------------------------------
(* The dataset across analyses, loads and clears. *)

\* C21: no analysis (compute_statistics, compute_and_plot_correlation,
\* compute_granger, estimate_pid_for_selected, generate_fuzzy_rules) changes
\* the dataset: across every analysis merged_data stays what it was, and so
\* after any sequence of analyses it is what the last load_files or
\* clear_files left.
C21_AnalysesLeaveTheDataset ==
    [][request'.op \in Analyses => merged_data' = merged_data]_vars

\* An analysis that cleaned a window with a gap, with the gap still in the
\* dataset.
C21_Witness ==
    /\ request.op \in Analyses
    /\ result_text # <<>>
    /\ \E i \in 1..Len(merged_data.index) :
          \E j \in 1..Len(merged_data.columns) : merged_data.values[i][j] = NaN

\* C22: after any sequence of load_files calls the time index of
\* merged_data is strictly increasing: no timestamp twice, none out of
\* order.
C22_IndexStrictlyIncreasing ==
    \A i \in 1..(Len(merged_data.index) - 1) :
        merged_data.index[i] < merged_data.index[i + 1]

\* The table that load_files makes of the exported file in a fresh
\* session.
Reloaded == LoadResult(variant, <<>>, EmptyFrame, <<OutPath>>).merged_data
WasExported ==
    /\ request.op = "export_current_data"
    /\ Msg("exported_current", OutPath) \in Range(status_bar)

\* The cells of column j in the rows of instant t, in row order.
CellsAt(df, j, t) ==
    Pick(Tuple([i \in 1..Len(df.index) |-> df.values[i][j]]),
         Where(df.index, LAMBDA u : u = t))

\* back holds the timestamps of out and, column by column, its values at
\* every timestamp.
SameTable(out, back) ==
    /\ Range(back.index) = Range(out.index)
    /\ Len(back.columns) = Len(out.columns)
    /\ \A j \in 1..Len(out.columns) :
          /\ back.columns[j] = FilePrefix(variant, OutPath) \o out.columns[j]
          /\ \A t \in Range(out.index) : CellsAt(back, j, t) = CellsAt(out, j, t)

C29_ListedPathsAreSkipped ==
    [][request'.op = "load_files" =>
          /\ Range(request'.files) \subseteq Range(file_list')
          /\ Range(request'.files) \subseteq Range(file_list) =>
                /\ merged_data' = merged_data
                /\ file_list' = file_list]_vars

\* load_files has been called with two listed paths and has read neither
\* (it has shown no message): a path whose file is loaded, and the path of
\* a file whose time column failed to parse.
C29_Witness ==
    /\ request.op = "load_files"
    /\ status_bar = <<>>
    /\ variant = "anylisis_data"
    /\ FileBad.path \in Range(request.files)
    /\ FileA.path \in Range(request.files)
    /\ Range(request.files) \subseteq Range(file_list)
    /\ ~IsEmpty(merged_data)

\* C30: clear_files leaves merged_data and the file list empty, and a list
\* of files loaded after it gives the merged dataset that the same list
\* gives in a session just started, whatever was loaded before the clear.
C30_ClearStartsAfresh ==
    [][/\ request'.op = "clear_files" =>
            IsEmpty(merged_data') /\ file_list' = <<>>
       /\ (request.op = "clear_files" /\ request'.op = "load_files") =>
            LET fresh == LoadResult(variant, <<>>, EmptyFrame, request'.files)
            IN /\ merged_data' = fresh.merged_data
               /\ file_list' = fresh.file_list]_vars

\* Two files loaded after a clear, neither of them among the files loaded
\* before it.
C30_Witness ==
    /\ request.op = "load_files"
    /\ file_list = <<FileA.path, FileB.path>>
    /\ request.files = file_list
    /\ ~IsEmpty(merged_data)
    /\ \A files \in BeforeBatches : Range(files) \cap Range(file_list) = {}

====
